---- MODULE Spec2Model ----
(***************************************************************************)
(* kez: the recent-cluster cache of internal/api (Client.AddRecentCluster, *)
(* CreateToken, CreateTokenWithDescription, RemoveTokenFromCluster), the   *)
(* configuration file of internal/config (Load, Save), the teardown run of *)
(* `stack delete` (DeleteCmd.Run) and the report of `stack status`         *)
(* (StatusCmd.Run).                                                        *)
(*                                                                         *)
(* The specifications of the module:                                       *)
(*   Spec        the cache and the token registry under any sequence of    *)
(*               client calls, with a persisted copy of the cache;         *)
(*   SpecConfig  the config file under any sequence of Load, Save and      *)
(*               edits by hand;                                            *)
(*   SpecDelete  one run of DeleteCmd.Run, step by step, against a helm    *)
(*               namespace, the control plane, the registry and the cache; *)
(*   SpecStatus  one run of StatusCmd.Run, probe by probe, against the     *)
(*               same world;                                               *)
(*   SpecDeleteFair         SpecDelete with every step of the run taken    *)
(*               when it can be (termination);                             *)
(*   SpecDeleteInterrupted  SpecDelete with SIGINT during the wait;        *)
(*   SpecProcesses  several processes that load, upsert and save at once.  *)
(***************************************************************************)
EXTENDS Integers, Sequences, FiniteSets, TLC

\* ------------------------------------------------------------------ bounds

\* maxRecent := 10 in Client.AddRecentCluster
maxRecent == 10
\* tokens the registry mints in one behaviour
MaxTokens == 2
\* the token calls and the renames address the clusters 1..MaxTokenClusters,
\* the first to be trimmed from the cache
MaxTokenClusters == 1
\* config.Save calls that fail (or never happen, the process having died) in
\* one behaviour
MaxSaveFails == 1
\* clusters renamed at the registry in one behaviour
MaxRenamed == 1

\* external calls (helm, kubectl, registry, disk) that fail in one delete run
MaxFaults == 1
\* the largest --timeout of a delete run, in seconds
MaxTimeout == 3
\* records in the cache a delete run starts with
MaxCache == 2
\* time.NewTicker(2 * time.Second) of the termination wait
TickSeconds == 2

\* one more cluster than the cache holds, so that the trim happens
UUIDs == 1..(maxRecent + 1)

\* names are sequences of characters (strings.Contains needs the characters)
NameDev == <<"D", "e", "v">>
NameOps == <<"o", "p", "s">>
OrgSlug == "acme"

TokenName == <<"t1", "t2", "t3", "t4", "t5">>
SecretName == <<"s1", "s2", "s3", "s4", "s5">>

\* ------------------------------------------------------------------ state

VARIABLES
    recent,      \* c.config.RecentClusters of the running process
    persisted,   \* recent_clusters of the document config.Save wrote last
    registry,    \* the registry's live tokens: records [cluster, id]
    deleted,     \* tokens the registry has deleted
    nextTok,     \* index of the next token the registry mints
    renamed,     \* clusters whose registry name is NameOps
    saveFails,   \* config.Save calls that have failed
    seen,        \* number of distinct clusters AddRecentCluster was called with
    last         \* the last client call and what it returned

\* one run of DeleteCmd.Run and the world it acts on
VARIABLES
    pc,              \* the position of the run in DeleteCmd.Run / StatusCmd.Run
    cmd,             \* the DeleteCmd: Name, All, Force, NoWait, Timeout (StatusCmd: Verbose, Refresh)
    helmPath,        \* TRUE when exec.LookPath("helm") finds helm
    client,          \* TRUE when api.NewClient returned a client
    releases,        \* the helm releases of namespace buildkite, in list order
    helmFormat,      \* layout of `helm list -o json`: "compact" or "pretty"
    secrets,         \* names of the Opaque secrets of the namespace
    resources,       \* labeled resources: records [kind, instance]
    pods,            \* releases that still have a non-terminal pod
    namespace,       \* TRUE while namespace buildkite exists
    clustersToDelete,\* the records whose tokens the run will revoke
    queue,           \* what is left of the loop the run is in
    elapsed,         \* seconds since the termination wait began
    faults,          \* external calls that have failed in this run
    answer,          \* the answer to the confirmation: "none", "yes", "no", "error"
    given,           \* the DeleteCmd as the run was invoked
    installed,       \* the releases installed when the run began
    stackList,       \* the stack names parsed from the first helm list
    prompts,         \* the prompts the run has issued
    uninstallCalls,  \* release names helm uninstall was invoked with
    secretDeletes,   \* secret names kubectl delete secret was invoked with
    resourceDeletes, \* [kind, selector] of every kubectl delete by label
    resourceChecks,  \* the kinds `kubectl get <kind>` of the cleanup was invoked with
    nsDeletes,       \* kubectl delete namespace invocations
    tokenDeletes,    \* [cluster, id] of every Client.DeleteToken call
    deletedTokens,   \* the run's count of deleted tokens
    waitResult,      \* "none", "skipped", "terminated", "timeout" or "interrupted"
    result           \* "running", "ok" or the error the run returned

\* the configuration file of internal/config and the last Load or Save
VARIABLES
    configDir,   \* TRUE while the directory of the config file exists
    configFile,  \* the config file: [kind, value]
    cfgCall,     \* the last config call: [op, cfg, nil, err]
    ioFails      \* disk operations of config.Load / config.Save that have failed

\* one run of StatusCmd.Run (it shares pc, cmd, the world and the cache)
VARIABLES
    report       \* the lines the status run has printed

\* several invocations of the tool at once, each with its own Client
VARIABLES
    procs        \* per process: where it is, the config it holds, what it saw

cacheVars == <<recent, persisted, registry, deleted, nextTok, renamed, saveFails, seen, last>>

runVars == <<pc, cmd, helmPath, client, releases, helmFormat, secrets, resources,
             pods, namespace, clustersToDelete, queue, elapsed, faults, answer,
             given, installed, stackList, prompts, uninstallCalls, secretDeletes, resourceDeletes, resourceChecks, nsDeletes,
             tokenDeletes, deletedTokens, waitResult, result>>

vars == <<recent, persisted, registry, deleted, nextTok, renamed, saveFails, seen, last,
          pc, cmd, helmPath, client, releases, helmFormat, secrets, resources,
          pods, namespace, clustersToDelete, queue, elapsed, faults, answer,
          given, installed, stackList, prompts, uninstallCalls, secretDeletes, resourceDeletes, resourceChecks, nsDeletes,
          tokenDeletes, deletedTokens, waitResult, result,
          configDir, configFile, cfgCall, ioFails, report, procs>>

configVars == <<configDir, configFile, cfgCall, ioFails>>

\* what the cache calls and the delete run never touch
otherVars == <<configDir, configFile, cfgCall, ioFails, report, procs>>

\* ------------------------------------------------------- config.RecentCluster

RecentCluster(u, n) ==
    [uuid |-> u, name |-> n, orgSlug |-> OrgSlug, tokenID |-> "", tokenVal |-> ""]

\* the registry's name of a cluster (buildkite.Cluster.Name)
ClusterName(u) == IF u \in renamed THEN NameOps ELSE NameDev

HasUUID(list, u) == \E i \in 1..Len(list) : list[i].uuid = u

\* for i, recent := range list { if recent.UUID == u { index = i; break } }
IndexOf(list, u) ==
    CHOOSE i \in 1..Len(list) :
        /\ list[i].uuid = u
        /\ \A j \in 1..(i - 1) : list[j].uuid # u

\* api.go 108-111: the old token fields are copied when the old TokenID is set
PreserveTokenDropped(old, new) == new

PreserveToken(old, new) ==
    IF old.tokenID # ""
    THEN [new EXCEPT !.tokenID = old.tokenID, !.tokenVal = old.tokenVal]
    ELSE new

\* api.go 116-119: keep the last maxRecent entries
TrimNone(list) == list

Trim(list) ==
    IF Len(list) > maxRecent
    THEN SubSeq(list, Len(list) - maxRecent + 1, Len(list))
    ELSE list

\* api.go 113: c.config.RecentClusters[index] = newRecent
ReplaceAt(list, index, rec) == [list EXCEPT ![index] = rec]

\* Client.AddRecentCluster, the list it leaves in memory
AddRecent(list, u, n) ==
    IF HasUUID(list, u)
    THEN ReplaceAt(list, IndexOf(list, u),
                   PreserveToken(list[IndexOf(list, u)], RecentCluster(u, n)))
    ELSE Trim(Append(list, RecentCluster(u, n)))

SetTokenEverywhere(list, u, id, val) ==
    IF HasUUID(list, u)
    THEN [i \in 1..Len(list) |-> [list[i] EXCEPT !.tokenID = id, !.tokenVal = val]]
    ELSE list

\* CreateToken / CreateTokenWithDescription, api.go 151-162 and 179-190
SetToken(list, u, id, val) ==
    IF HasUUID(list, u)
    THEN [list EXCEPT ![IndexOf(list, u)] =
              [@ EXCEPT !.tokenID = id, !.tokenVal = val]]
    ELSE list

TokenMatchesAny(rec, u, t) == rec.uuid = u

\* RemoveTokenFromCluster, api.go 250-257
TokenMatches(rec, u, t) == rec.uuid = u /\ rec.tokenID = t

HasTokenMatch(list, u, t) == \E i \in 1..Len(list) : TokenMatches(list[i], u, t)

FirstTokenMatch(list, u, t) ==
    CHOOSE i \in 1..Len(list) :
        /\ TokenMatches(list[i], u, t)
        /\ \A j \in 1..(i - 1) : ~TokenMatches(list[j], u, t)

ClearToken(list, u, t) ==
    IF HasTokenMatch(list, u, t)
    THEN [list EXCEPT ![FirstTokenMatch(list, u, t)] =
              [@ EXCEPT !.tokenID = "", !.tokenVal = ""]]
    ELSE list

\* config.Save: the document is replaced when the write succeeds
SaveOutcomes == IF saveFails < MaxSaveFails THEN BOOLEAN ELSE {TRUE}

SavedNowhere(list, ok) ==
    /\ persisted' = persisted
    /\ saveFails' = IF ok THEN saveFails ELSE saveFails + 1

Saved(list, ok) ==
    /\ persisted' = IF ok THEN list ELSE persisted
    /\ saveFails' = IF ok THEN saveFails ELSE saveFails + 1

\* bk.DeleteToken against the registry: a token that is not there is a 404,
\* which the SDK returns as an error
RegistryDelete(u, t, up) ==
    IF ~up THEN "unreachable"
    ELSE IF [cluster |-> u, id |-> t] \in registry THEN "ok"
    ELSE "notfound"

DeleteTokenAlways(resp) == TRUE

\* Client.DeleteToken: any error of bk.DeleteToken is returned
DeleteTokenOk(resp) == resp = "ok"

\* the registry's tokens after bk.DeleteToken answered resp
RegistryAfter(u, t, resp) ==
    IF resp = "ok" THEN registry \ {[cluster |-> u, id |-> t]} ELSE registry

DeletedAfter(u, t, resp) ==
    IF resp = "ok" THEN deleted \cup {[cluster |-> u, id |-> t]} ELSE deleted

CreateErrFromSave(ok) == IF ok THEN "" ELSE "save"

\* api.go 157-159 and 185-187: a failed config.Save is printed as a warning
\* and the token is returned with a nil error
CreateErr(ok) == ""

\* the process may die between the registry call and the cache update (the
\* next process loads the persisted configuration); a crash counts as a
\* failed save, since the save it would have done never happens
CrashOutcomes == IF saveFails < MaxSaveFails THEN {FALSE, TRUE} ELSE {FALSE}

Result(op, u, t, err, warn) ==
    [op |-> op, uuid |-> u, tok |-> t, err |-> err, warn |-> warn]

\* ---------------------------------------------------------------- actions

CacheInit ==
    /\ recent = <<>>
    /\ persisted = <<>>
    /\ registry = {}
    /\ deleted = {}
    /\ nextTok = 1
    /\ renamed = {}
    /\ saveFails = 0
    /\ seen = 0
    /\ last = Result("init", 0, "", "", FALSE)

\* The uuid is opaque: a cluster never used before is numbered seen + 1, so
\* the calls draw from the clusters used so far and the next new one.
Callable == {u \in UUIDs : u <= seen + 1}

AfterSaveRolledBack(before, after, ok) == IF ok THEN after ELSE before

\* c.config.RecentClusters once config.Save has returned: the list was
\* changed in place before the save (api.go 113-119, 250-251) and a save
\* error is returned without undoing the change (api.go 124-126, 261-263)
AfterSave(before, after, ok) == after

\* Client.AddRecentCluster(cluster): the cluster comes from the registry's list
AddRecentCluster ==
    \E u \in Callable, ok \in SaveOutcomes :
        /\ recent' = AfterSave(recent, AddRecent(recent, u, ClusterName(u)), ok)
        /\ Saved(AddRecent(recent, u, ClusterName(u)), ok)
        /\ seen' = IF u > seen THEN u ELSE seen
        /\ last' = Result("add", u, "", IF ok THEN "" ELSE "save", FALSE)
        /\ UNCHANGED <<registry, deleted, nextTok, renamed>>
        /\ UNCHANGED <<runVars, otherVars>>

\* CreateToken and CreateTokenWithDescription differ in the description sent
\* to the registry only; op names the method.
IssueToken(op) ==
    \E u \in 1..MaxTokenClusters, up \in BOOLEAN, ok \in SaveOutcomes,
       crash \in CrashOutcomes :
        IF ~up
        THEN /\ ok
             /\ ~crash
             /\ last' = Result(op, u, "", "registry", FALSE)
             /\ UNCHANGED <<recent, persisted, registry, deleted, nextTok,
                            renamed, saveFails, seen>>
             /\ UNCHANGED <<runVars, otherVars>>
        ELSE /\ nextTok <= MaxTokens
             /\ registry' = registry \cup {[cluster |-> u, id |-> TokenName[nextTok]]}
             /\ nextTok' = nextTok + 1
             /\ IF crash
                THEN /\ ok
                     /\ recent' = persisted
                     /\ saveFails' = saveFails + 1
                     /\ last' = Result(op, u, TokenName[nextTok], "crash", FALSE)
                     /\ UNCHANGED persisted
                ELSE /\ recent' = SetToken(recent, u, TokenName[nextTok], SecretName[nextTok])
                     /\ IF HasUUID(recent, u)
                        THEN Saved(recent', ok)
                        ELSE ok /\ UNCHANGED <<persisted, saveFails>>
                     /\ last' = Result(op, u, TokenName[nextTok], CreateErr(ok), ~ok)
             /\ UNCHANGED <<deleted, renamed, seen>>
             /\ UNCHANGED <<runVars, otherVars>>

CreateToken == IssueToken("create")

CreateTokenWithDescription == IssueToken("create")

Minted == registry \cup deleted

\* Client.RemoveTokenFromCluster(clusterID, tokenID)
RemoveTokenFromCluster ==
    \E u \in 1..MaxTokenClusters, t \in {""} \cup {m.id : m \in Minted},
       ok \in SaveOutcomes :
        /\ recent' = AfterSave(recent, ClearToken(recent, u, t), ok)
        /\ IF HasTokenMatch(recent, u, t)
           THEN /\ Saved(ClearToken(recent, u, t), ok)
                /\ last' = Result("remove", u, t, IF ok THEN "" ELSE "save", FALSE)
           ELSE /\ ok
                /\ UNCHANGED <<persisted, saveFails>>
                /\ last' = Result("remove", u, t, "notfound", FALSE)
        /\ UNCHANGED <<registry, deleted, nextTok, renamed, seen>>
        /\ UNCHANGED <<runVars, otherVars>>

\* One revocation of the teardown (DeleteCmd.Run, the body of the loop over
\* clustersToDelete): Client.DeleteToken, then on success
\* Client.RemoveTokenFromCluster, whose error is only a warning.
RevokeToken ==
    \E m \in Minted, up \in BOOLEAN, ok \in SaveOutcomes, crash \in CrashOutcomes :
        LET resp == RegistryDelete(m.cluster, m.id, up) IN
        /\ registry' = RegistryAfter(m.cluster, m.id, resp)
        /\ deleted' = DeletedAfter(m.cluster, m.id, resp)
        /\ IF crash
           THEN /\ ok
                /\ resp = "ok"
                /\ recent' = persisted
                /\ saveFails' = saveFails + 1
                /\ last' = Result("revoke", m.cluster, m.id, "crash", FALSE)
                /\ UNCHANGED persisted
           ELSE IF DeleteTokenOk(resp)
           THEN /\ recent' = ClearToken(recent, m.cluster, m.id)
                /\ IF HasTokenMatch(recent, m.cluster, m.id)
                   THEN /\ Saved(recent', ok)
                        /\ last' = Result("revoke", m.cluster, m.id, "", ~ok)
                   ELSE /\ ok
                        /\ UNCHANGED <<persisted, saveFails>>
                        /\ last' = Result("revoke", m.cluster, m.id, "", TRUE)
           ELSE /\ ok
                /\ last' = Result("revoke", m.cluster, m.id, resp, FALSE)
                /\ UNCHANGED <<recent, persisted, saveFails>>
        /\ UNCHANGED <<nextTok, renamed, seen>>
        /\ UNCHANGED <<runVars, otherVars>>

\* the registry renames a cluster (the cache learns of it at the next add)
RenameCluster ==
    \E u \in 1..MaxTokenClusters :
        /\ u \notin renamed
        /\ Cardinality(renamed) < MaxRenamed
        /\ renamed' = renamed \cup {u}
        /\ last' = Result("rename", u, "", "", FALSE)
        /\ UNCHANGED <<recent, persisted, registry, deleted, nextTok, saveFails, seen>>
        /\ UNCHANGED <<runVars, otherVars>>

\* a new process: api.NewClient loads the persisted configuration
NewClient ==
    /\ recent' = persisted
    /\ last' = Result("load", 0, "", "", FALSE)
    /\ UNCHANGED <<persisted, registry, deleted, nextTok, renamed, saveFails, seen>>
    /\ UNCHANGED <<runVars, otherVars>>

\* --------------------------------------------------------- internal/config

\* disk operations of config.Load / config.Save that fail in one behaviour
MaxIOFails == 1

\* config.Config, flattened: Buildkite.Token, Buildkite.OrgSlug,
\* Kubernetes.PreferredProvider, RecentClusters
Config(tok, org, provider, clusters) ==
    [token |-> tok, orgSlug |-> org, preferredProvider |-> provider,
     recentClusters |-> clusters]

\* config.DefaultConfig
DefaultConfig == Config("", "", "orbstack", <<>>)

\* var cfg Config, before json.Unmarshal fills it
ZeroConfig == Config("", "", "", <<>>)

\* a JSON object is a function from the keys it holds to their values
EmptyObject == [k \in {} |-> ""]

\* the keys tagged `omitempty` in RecentCluster
OmitEmptyKeys == {"token_id", "token_val"}

OmitKeyAlways(k, v) == k \in OmitEmptyKeys

\* encoding/json leaves an omitempty key out when its string is empty
OmitKey(k, v) == k \in OmitEmptyKeys /\ v = ""

\* the json tags of RecentCluster
ClusterFields(rc) ==
    [uuid |-> rc.uuid, name |-> rc.name, org_slug |-> rc.orgSlug,
     token_id |-> rc.tokenID, token_val |-> rc.tokenVal]

MarshalCluster(rc) ==
    LET f == ClusterFields(rc)
    IN  [k \in {key \in DOMAIN f : ~OmitKey(key, f[key])} |-> f[k]]

\* json.MarshalIndent(cfg, "", "  ") in config.Save
Marshal(c) ==
    [buildkite |-> [token |-> c.token, org_slug |-> c.orgSlug],
     kubernetes |-> [preferred_provider |-> c.preferredProvider],
     recent_clusters |-> [i \in 1..Len(c.recentClusters) |->
                             MarshalCluster(c.recentClusters[i])]]

\* a key the document does not hold leaves the field at its zero value
Get(obj, k, zero) == IF k \in DOMAIN obj THEN obj[k] ELSE zero

UnmarshalCluster(obj) ==
    [uuid |-> Get(obj, "uuid", 0), name |-> Get(obj, "name", <<>>),
     orgSlug |-> Get(obj, "org_slug", ""), tokenID |-> Get(obj, "token_id", ""),
     tokenVal |-> Get(obj, "token_val", "")]

\* json.Unmarshal(data, &cfg) in config.Load, on a well-formed document
Unmarshal(value) ==
    LET bk == Get(value, "buildkite", EmptyObject)
        k8s == Get(value, "kubernetes", EmptyObject)
        list == Get(value, "recent_clusters", <<>>)
    IN  Config(Get(bk, "token", ""), Get(bk, "org_slug", ""),
               Get(k8s, "preferred_provider", ""),
               [i \in 1..Len(list) |-> UnmarshalCluster(list[i])])

\* the config file: "missing", "empty" (zero bytes), "invalid" (bytes that
\* are not a JSON document; value is what the text was meant to hold) or
\* "json" (a well-formed document)
File(kind, value) == [kind |-> kind, value |-> value]

NoFile == File("missing", EmptyObject)

ParseFailsNever(file) == FALSE

\* config.go 236-242: json.Unmarshal returns an error
ParseFails(file) == file.kind = "invalid"

\* what (cfg, err) a config call returned: nil is TRUE for a nil *Config
Returned(op, c, isNil, err, made, prev) ==
    [op |-> op, cfg |-> c, nil |-> isNil, err |-> err, mkdir |-> made, prev |-> prev]

\* the call before, without its own history
Before(call) == [op |-> call.op, cfg |-> call.cfg, err |-> call.err, mkdir |-> call.mkdir]

NoCall == Returned("none", ZeroConfig, TRUE, "", FALSE,
                   [op |-> "none", cfg |-> ZeroConfig, err |-> "", mkdir |-> FALSE])

\* config.Load once the file was read or found missing, config.go 221-244
LoadResult(file) ==
    IF file.kind \in {"missing", "empty"}
    THEN [cfg |-> DefaultConfig, nil |-> FALSE, err |-> ""]
    ELSE IF ParseFails(file)
         THEN [cfg |-> ZeroConfig, nil |-> TRUE, err |-> "parse"]
         ELSE [cfg |-> Unmarshal(file.value), nil |-> FALSE, err |-> ""]

\* the records and configurations the calls are made with
ClusterOne == [RecentCluster(1, NameDev) EXCEPT !.tokenID = "t1", !.tokenVal = "v1"]
ClusterTwo == RecentCluster(2, NameOps)

ClusterLists == {<<>>, <<ClusterTwo>>, <<ClusterOne, ClusterTwo>>, <<ClusterTwo, ClusterOne>>}

Configs ==
    {Config(cred[1], cred[2], provider, list) :
        cred \in {<<"", "">>, <<"bkua", OrgSlug>>},
        provider \in {"orbstack", "kind"},
        list \in ClusterLists}

\* files written by hand: zero bytes, a document cut short, `{}`, and a
\* document that holds the provider only
HandWritten ==
    {File("empty", EmptyObject),
     File("invalid", Marshal(Config("bkua", OrgSlug, "kind", <<ClusterOne>>))),
     File("json", EmptyObject),
     File("json", [kubernetes |-> [preferred_provider |-> "kind"]])}

IOOutcomes(steps) == IF ioFails < MaxIOFails THEN {"ok"} \cup steps ELSE {"ok"}

\* no config call, no config file
ConfigIdle ==
    /\ configDir = FALSE
    /\ configFile = NoFile
    /\ cfgCall = NoCall
    /\ ioFails = 0

ConfigInit ==
    /\ configDir \in BOOLEAN
    /\ configFile \in (IF configDir THEN {NoFile} \cup HandWritten ELSE {NoFile})
    /\ cfgCall = NoCall
    /\ ioFails = 0

\* config.Load, config.go 207-245
Load ==
    /\ \E out \in IOOutcomes({"mkdir"} \cup
                             (IF configFile.kind = "missing" THEN {} ELSE {"read"})) :
          IF out = "mkdir"
          THEN /\ cfgCall' = Returned("load", ZeroConfig, TRUE, "create config directory",
                                      FALSE, Before(cfgCall))
               /\ ioFails' = ioFails + 1
               /\ UNCHANGED configDir
          ELSE /\ configDir' = TRUE
               /\ IF out = "read"
                  THEN /\ cfgCall' = Returned("load", ZeroConfig, TRUE, "read config file",
                                              ~configDir, Before(cfgCall))
                       /\ ioFails' = ioFails + 1
                  ELSE /\ cfgCall' = Returned("load", LoadResult(configFile).cfg,
                                              LoadResult(configFile).nil,
                                              LoadResult(configFile).err,
                                              ~configDir, Before(cfgCall))
                       /\ UNCHANGED ioFails
    /\ UNCHANGED <<configFile, cacheVars, runVars, report, procs>>

\* config.Save, config.go 249-274
Save ==
    \E c \in Configs, out \in IOOutcomes({"mkdir", "write"}) :
       /\ IF out = "mkdir"
          THEN /\ cfgCall' = Returned("save", c, FALSE, "create config directory",
                                      FALSE, Before(cfgCall))
               /\ ioFails' = ioFails + 1
               /\ UNCHANGED <<configDir, configFile>>
          ELSE /\ configDir' = TRUE
               /\ IF out = "write"
                  THEN /\ cfgCall' = Returned("save", c, FALSE, "write config file",
                                              ~configDir, Before(cfgCall))
                       /\ ioFails' = ioFails + 1
                       /\ UNCHANGED configFile
                  ELSE /\ cfgCall' = Returned("save", c, FALSE, "", ~configDir,
                                              Before(cfgCall))
                       /\ configFile' = File("json", Marshal(c))
                       /\ UNCHANGED ioFails
       /\ UNCHANGED <<cacheVars, runVars, report, procs>>

\* the user edits the file in an editor
EditFile ==
    /\ \E f \in HandWritten : configFile' = f
    /\ configDir' = TRUE
    /\ cfgCall' = Returned("edit", ZeroConfig, TRUE, "", FALSE, Before(cfgCall))
    /\ UNCHANGED <<ioFails, cacheVars, runVars, report, procs>>

\* the user removes the config directory
RemoveDir ==
    /\ configDir
    /\ configDir' = FALSE
    /\ configFile' = NoFile
    /\ cfgCall' = Returned("remove", ZeroConfig, TRUE, "", FALSE, Before(cfgCall))
    /\ UNCHANGED <<ioFails, cacheVars, runVars, report, procs>>

\* the report of a status run: one field per probe
Report(stacks, versions, podLine, cluster, api, summary) ==
    [stacks |-> stacks, versions |-> versions, pods |-> podLine, cluster |-> cluster,
     api |-> api, summary |-> summary]

NoReport == Report("none", "none", "none", "none", "none", "none")

\* no status run
StatusIdle == report = NoReport

\* processes of one user that run at once
MaxProcs == 2

Procs == 1..MaxProcs

\* a process: pc is "start", "loaded" (api.NewClient has returned) or "done"
\* (AddRecentCluster has returned err); config is its c.config.RecentClusters,
\* loaded what config.Load gave it; saw are the processes whose save had been
\* written when it loaded; rank numbers the successful saves in their order
Process(at, loaded, list, saw, rank, err) ==
    [pc |-> at, loaded |-> loaded, config |-> list, saw |-> saw, rank |-> rank, err |-> err]

NoProcess == Process("start", <<>>, <<>>, {}, 0, "")

\* one process at a time, the one of the other specifications
ProcsIdle == procs = [p \in Procs |-> NoProcess]

\* no delete run
RunIdle ==
    /\ pc = "idle"
    /\ cmd = [name |-> <<>>, all |-> FALSE, force |-> FALSE, noWait |-> FALSE, timeout |-> 0]
    /\ helmPath = FALSE
    /\ client = FALSE
    /\ releases = <<>>
    /\ helmFormat = "compact"
    /\ secrets = {}
    /\ resources = {}
    /\ pods = {}
    /\ namespace = FALSE
    /\ clustersToDelete = <<>>
    /\ queue = <<>>
    /\ elapsed = 0
    /\ faults = 0
    /\ answer = "none"
    /\ given = cmd
    /\ installed = <<>>
    /\ stackList = [listed |-> FALSE, names |-> <<>>]
    /\ prompts = {}
    /\ uninstallCalls = {}
    /\ secretDeletes = {}
    /\ resourceDeletes = {}
    /\ resourceChecks = {}
    /\ nsDeletes = 0
    /\ tokenDeletes = {}
    /\ deletedTokens = 0
    /\ waitResult = "none"
    /\ result = "running"

Init == CacheInit /\ RunIdle /\ ConfigIdle /\ StatusIdle /\ ProcsIdle

Next ==
    \/ AddRecentCluster
    \/ CreateToken
    \/ CreateTokenWithDescription
    \/ RemoveTokenFromCluster
    \/ RevokeToken
    \/ RenameCluster
    \/ NewClient

Spec == Init /\ [][Next]_vars

\* the config file under any sequence of Load, Save and edits by hand
InitConfig == CacheInit /\ RunIdle /\ ConfigInit /\ StatusIdle /\ ProcsIdle

NextConfig ==
    \/ Load
    \/ Save
    \/ EditFile
    \/ RemoveDir

SpecConfig == InitConfig /\ [][NextConfig]_vars

\* ------------------------------------------------- DeleteCmd.Run: helpers

\* release names, as characters
StackDev == <<"d", "e", "v">>
StackProd == <<"p", "r", "o", "d">>
StackQa == <<"q", "a">>

\* strings.ToLower on the characters the names use
LowerChar(ch) == IF ch = "D" THEN "d" ELSE IF ch = "O" THEN "o" ELSE ch

ToLower(str) == [i \in 1..Len(str) |-> LowerChar(str[i])]

\* strings.Contains(str, sub)
Contains(str, sub) ==
    \E k \in 0..(Len(str) - Len(sub)) :
        \A i \in 1..Len(sub) : str[k + i] = sub[i]

\* Client.FindClusterByName: the records whose lowered name contains the
\* lowered query, in list order
NameMatches(rec, query) == Contains(ToLower(rec.name), ToLower(query))

FindClusterByName(list, query) ==
    SelectSeq(list, LAMBDA rec : NameMatches(rec, query))

HasToken(rec) == rec.tokenID # ""

WithToken(list) == SelectSeq(list, HasToken)

FallbackAll(list) == WithToken(list)

\* part_001 225-234: the first record of the list that holds a token
Fallback(list) ==
    IF WithToken(list) = <<>> THEN <<>> ELSE <<Head(WithToken(list))>>

\* part_001 205-235: clustersToDelete
ClustersToDelete(list, all, name) ==
    IF list = <<>> THEN <<>>
    ELSE IF all THEN WithToken(list)
    ELSE IF WithToken(FindClusterByName(list, name)) # <<>>
         THEN WithToken(FindClusterByName(list, name))
         ELSE Fallback(list)

\* `helm list -n buildkite -o json`, as the lines of its output; a line is the
\* sequence of the "name" values that lie on it. No release prints "[]".
HelmListOutput(rels, format) ==
    IF rels = <<>> THEN <<>>
    ELSE IF format = "compact" THEN <<rels>>
    ELSE [i \in 1..Len(rels) |-> <<rels[i]>>]

\* part_001 64-72 and 305-316: of every line holding "name": the text between
\* the third and the fourth quote, which is the first name of the line
ExtractNames(lines) ==
    LET named == SelectSeq(lines, LAMBDA line : line # <<>>)
    IN [i \in 1..Len(named) |-> named[i][1]]

InSeq(seq, x) == \E i \in 1..Len(seq) : seq[i] = x

Without(seq, x) == SelectSeq(seq, LAMBDA y : y # x)

\* part_002 355-357: secretName = "git-ssh-key-" + releaseName
GitSSHKeyPrefix == <<"g", "i", "t", "-", "s", "s", "h", "-", "k", "e", "y", "-">>

GitSSHKey(rel) == GitSSHKeyPrefix \o rel

\* a secret of the namespace that holds no ssh key
RegistrySecret == <<"r", "e", "g", "-", "s", "s", "l">>

\* part_002 355-357: the ssh secret created for a release
IsSSHSecretOf(secret, name) == secret = GitSSHKey(name)

\* part_001 359-363: the secrets the run deletes
IsSSHSecret(secret) ==
    \/ Contains(secret, <<"g", "i", "t", "-", "s", "s", "h">>)
    \/ Contains(secret, <<"s", "s", "h", "-", "k", "e", "y">>)

\* part_001 384-388
resourceTypes ==
    <<"deployments", "statefulsets", "daemonsets", "services", "configmaps",
      "secrets", "serviceaccounts", "roles", "rolebindings">>

\* the label selector of the run: every agent-stack resource, or one instance
SelectedBy(res, all, name) == all \/ res.instance = name

Selector(all, name) == IF all THEN <<"*">> ELSE name

\* the chart's labeled resources of a release
ChartResources(rel) ==
    {[kind |-> k, instance |-> rel] : k \in {"deployments", "secrets"}}

SeqToSet(seq) == {seq[i] : i \in 1..Len(seq)}

\* time.Since(startTime) > timeoutDuration, as a set of outcomes: `secs` is the
\* time on the ticker, and the time since startTime is that plus whatever
\* the clock measured for the run's own work, so at secs = timeout the
\* comparison goes either way
TimedOut(secs, timeout) ==
    IF secs > timeout THEN {TRUE}
    ELSE IF secs = timeout THEN {TRUE, FALSE}
    ELSE {FALSE}

\* an external call may fail while the run has faults left
Outcomes == IF faults < MaxFaults THEN {TRUE, FALSE} ELSE {TRUE}

Fault(ok) == faults' = IF ok THEN faults ELSE faults + 1

\* ------------------------------------------------ DeleteCmd.Run: the world

flagVars == <<cmd, helmPath, client, helmFormat, given, installed>>

worldVars == <<releases, secrets, resources, pods, namespace>>

callVars == <<uninstallCalls, secretDeletes, resourceDeletes, resourceChecks, nsDeletes,
              tokenDeletes, deletedTokens>>

registryVars == <<recent, persisted, registry, deleted, last>>

idleCacheVars == <<nextTok, renamed, saveFails, seen>>

\* the cache a run starts with: cluster 1 is named "Dev", the others "ops";
\* a record may hold the token the registry minted for it
CacheRecord(u, tok) ==
    [uuid |-> u, name |-> IF u = 1 THEN NameDev ELSE NameOps, orgSlug |-> OrgSlug,
     tokenID |-> IF tok THEN TokenName[u] ELSE "",
     tokenVal |-> IF tok THEN SecretName[u] ELSE ""]

CacheOptions ==
    UNION {{list \in [1..n -> {CacheRecord(u, tok) : u \in 1..MaxCache, tok \in BOOLEAN}] :
                \A i, j \in 1..n : list[i].uuid = list[j].uuid => i = j}
           : n \in 0..MaxCache}

ReleaseOptions ==
    {<<>>, <<StackDev>>, <<StackProd, StackDev>>, <<StackDev, StackProd>>}

Commands ==
    {[name |-> n, all |-> a, force |-> f, noWait |-> w, timeout |-> t] :
        n \in {<<>>, StackDev, StackQa}, a \in BOOLEAN, f \in BOOLEAN,
        w \in BOOLEAN, t \in {0, MaxTimeout}}

DeleteInit ==
    /\ pc = "start"
    /\ cmd \in {c \in Commands : (c.all => c.name = <<>>) /\ (c.noWait => c.timeout = 0)}
    /\ helmPath \in BOOLEAN
    /\ client \in BOOLEAN
    /\ faults = (IF helmPath THEN 0 ELSE 1) + (IF client THEN 0 ELSE 1)
    /\ faults <= MaxFaults
    /\ releases \in ReleaseOptions
    /\ helmFormat \in {"compact", "pretty"}
    /\ Len(releases) < 2 => helmFormat = "compact"
    /\ secrets = {GitSSHKey(r) : r \in SeqToSet(releases)} \cup {RegistrySecret}
    /\ resources = UNION {ChartResources(r) : r \in SeqToSet(releases)}
    /\ pods = SeqToSet(releases)
    /\ namespace = TRUE
    /\ recent \in CacheOptions
    /\ persisted = recent
    /\ registry = {[cluster |-> recent[i].uuid, id |-> recent[i].tokenID] :
                     i \in {j \in 1..Len(recent) : HasToken(recent[j])}}
    /\ deleted = {}
    /\ nextTok = MaxCache + 1
    /\ renamed = {}
    /\ saveFails = 0
    /\ seen = 0
    /\ last = Result("init", 0, "", "", FALSE)
    /\ clustersToDelete = <<>>
    /\ queue = <<>>
    /\ elapsed = 0
    /\ answer = "none"
    /\ given = cmd
    /\ installed = releases
    /\ stackList = [listed |-> FALSE, names |-> <<>>]
    /\ prompts = {}
    /\ uninstallCalls = {}
    /\ secretDeletes = {}
    /\ resourceDeletes = {}
    /\ resourceChecks = {}
    /\ nsDeletes = 0
    /\ tokenDeletes = {}
    /\ deletedTokens = 0
    /\ waitResult = "none"
    /\ result = "running"
    /\ ConfigIdle
    /\ StatusIdle
    /\ ProcsIdle

\* the run returns
Return(res) ==
    /\ pc' = "done"
    /\ result' = res

\* part_001 31-40: k8s.IsAgentStackInstalled
CheckInstalled ==
    /\ pc = "start"
    /\ \E out \in {"ok"} \cup (IF faults < MaxFaults THEN {"ns-error", "pods-error"} ELSE {}) :
          /\ Fault(out = "ok")
          /\ IF out = "ns-error" THEN Return("error: check installed")
             ELSE IF namespace /\ (out = "pods-error" \/ pods # {})
                  THEN pc' = "discover" /\ UNCHANGED result
                  ELSE Return("nothing")
    /\ UNCHANGED <<flagVars, worldVars, callVars, registryVars, idleCacheVars, otherVars,
                   clustersToDelete, queue, elapsed, answer, stackList, prompts, waitResult>>

\* part_001 118-127: the named stack is verified against the list
StackListedAlways(list, name) == TRUE

StackListed(list, name) == InSeq(list, name)

\* part_001 62, 74 and 136: no release is listed
NoStacksNever(out, list) == FALSE

NoStacks(out, list) == out = <<>> \/ list = <<>>

CanPromptAlways(c) == TRUE

\* part_001 85 and 114-117: the selection prompt is shown only without force
CanPrompt(c) == ~c.force

\* part_001 42-140: helm lookup, release listing, target resolution
Discover ==
    /\ pc = "discover"
    /\ \E ok \in (IF helmPath THEN Outcomes ELSE {TRUE}) :
          LET out == HelmListOutput(releases, helmFormat)
              list == ExtractNames(out)
              unnamed == cmd.name = <<>> /\ ~cmd.all
          IN /\ Fault(ok)
             /\ stackList' = IF helmPath /\ ok /\ out # <<>>
                             THEN [listed |-> TRUE, names |-> list]
                             ELSE IF helmPath /\ ok
                             THEN [listed |-> TRUE, names |-> <<>>]
                             ELSE stackList
             /\ IF ~helmPath
                THEN /\ IF unnamed THEN Return("error: helm not available")
                        ELSE pc' = "connect" /\ UNCHANGED result
                     /\ UNCHANGED cmd
                ELSE IF ~ok
                THEN /\ IF unnamed THEN Return("error: list failed")
                        ELSE pc' = "connect" /\ UNCHANGED result
                     /\ UNCHANGED cmd
                ELSE IF NoStacks(out, list)
                THEN Return("nothing") /\ UNCHANGED cmd
                ELSE IF unnamed
                THEN IF Len(list) = 1
                     THEN /\ cmd' = [cmd EXCEPT !.name = list[1]]
                          /\ pc' = "connect"
                          /\ UNCHANGED result
                     ELSE IF CanPrompt(cmd)
                     THEN /\ pc' = "select"
                          /\ UNCHANGED <<result, cmd>>
                     ELSE Return("error: multiple stacks") /\ UNCHANGED cmd
                ELSE IF cmd.name # <<>> /\ ~cmd.all /\ ~StackListed(list, cmd.name)
                THEN Return("error: not found") /\ UNCHANGED cmd
                ELSE pc' = "connect" /\ UNCHANGED <<result, cmd>>
    /\ UNCHANGED <<helmPath, client, helmFormat, given, installed, worldVars, callVars,
                   registryVars, idleCacheVars, otherVars, clustersToDelete, queue, elapsed,
                   answer, prompts, waitResult>>

\* part_001 85-113: the selection prompt; choice 0 is a cancelled prompt
SelectStack ==
    /\ pc = "select"
    /\ prompts' = prompts \cup {"select"}
    /\ \E choice \in 0..(Len(stackList.names) + 1) :
          IF choice = 0
          THEN Return("error: selection cancelled") /\ UNCHANGED cmd
          ELSE /\ cmd' = IF choice = Len(stackList.names) + 1
                         THEN [cmd EXCEPT !.all = TRUE, !.name = <<>>]
                         ELSE [cmd EXCEPT !.all = FALSE, !.name = stackList.names[choice]]
               /\ pc' = "connect"
               /\ UNCHANGED result
    /\ UNCHANGED <<helmPath, client, helmFormat, given, installed, stackList, worldVars,
                   callVars, registryVars, idleCacheVars, otherVars, clustersToDelete, queue,
                   elapsed, faults, answer, waitResult>>

ConnectionIgnored(ok) == TRUE

\* part_001 150-153: err of k8s.VerifyClusterConnection is nil
ConnectionOk(ok) == ok

\* part_001 148-195: control-plane connection, kubectl lookup, current context
Connect ==
    /\ pc = "connect"
    /\ \E ok \in Outcomes :
          /\ Fault(ok)
          /\ IF ConnectionOk(ok) THEN pc' = "plan" /\ UNCHANGED result
             ELSE Return("error: kubernetes connection")
    /\ UNCHANGED <<flagVars, worldVars, callVars, registryVars, idleCacheVars, otherVars,
                   clustersToDelete, queue, elapsed, answer, stackList, prompts, waitResult>>

\* part_001 197-260: the clusters whose tokens will be revoked
PlanRevocation ==
    /\ pc = "plan"
    /\ clustersToDelete' =
          IF client THEN ClustersToDelete(recent, cmd.all, cmd.name) ELSE <<>>
    /\ pc' = "confirm"
    /\ UNCHANGED <<flagVars, worldVars, callVars, registryVars, idleCacheVars, otherVars,
                   queue, elapsed, faults, answer, stackList, prompts, waitResult, result>>

\* part_001 262-290: the confirmation prompt
ForceAlways(c) == TRUE

SkipsConfirmation(c) == c.force

Confirm ==
    /\ pc = "confirm"
    /\ IF SkipsConfirmation(cmd)
       THEN pc' = "uninstall" /\ UNCHANGED <<result, answer, prompts>>
       ELSE /\ prompts' = prompts \cup {"confirm"}
            /\ \E reply \in {"yes", "no", "error"} :
                  /\ answer' = reply
                  /\ IF reply = "yes" THEN pc' = "uninstall" /\ UNCHANGED result
                     ELSE IF reply = "no" THEN Return("cancelled")
                     ELSE Return("error: prompt cancelled")
    /\ UNCHANGED <<flagVars, worldVars, callVars, registryVars, idleCacheVars, otherVars,
                   clustersToDelete, queue, elapsed, faults, stackList, waitResult>>

\* part_001 292-349: the releases helm uninstall will be invoked with
UninstallTargets ==
    /\ pc = "uninstall"
    /\ \E ok \in (IF helmPath /\ cmd.all THEN Outcomes ELSE {TRUE}) :
          /\ Fault(ok)
          /\ queue' = IF ~helmPath \/ ~ok THEN <<>>
                      ELSE IF cmd.all
                      THEN ExtractNames(HelmListOutput(releases, helmFormat))
                      ELSE <<cmd.name>>
    /\ pc' = IF queue' = <<>> THEN "secrets" ELSE "uninstall-loop"
    /\ UNCHANGED <<flagVars, worldVars, callVars, registryVars, idleCacheVars, otherVars,
                   clustersToDelete, elapsed, answer, stackList, prompts, waitResult, result>>

NextTargetsUnlessFailed(q, ok) == IF ok THEN Tail(q) ELSE <<>>

\* part_001 320-332: a failed helm uninstall is printed and the loop goes on
NextTargets(q, ok) == Tail(q)

\* part_001 321-347: helm uninstall <name>; it fails for a release that is
\* not installed, and removes the chart's resources when it succeeds
UninstallNext ==
    /\ pc = "uninstall-loop"
    /\ uninstallCalls' = uninstallCalls \cup {Head(queue)}
    /\ \E ok \in (IF InSeq(releases, Head(queue)) THEN Outcomes ELSE {TRUE}) :
          /\ Fault(ok)
          /\ IF ok /\ InSeq(releases, Head(queue))
             THEN /\ releases' = Without(releases, Head(queue))
                  /\ resources' = resources \ ChartResources(Head(queue))
             ELSE UNCHANGED <<releases, resources>>
          /\ queue' = NextTargets(queue, ok /\ InSeq(releases, Head(queue)))
    /\ pc' = IF queue' = <<>> THEN "secrets" ELSE "uninstall-loop"
    /\ UNCHANGED <<flagVars, secrets, pods, namespace, secretDeletes, resourceDeletes, resourceChecks,
                   nsDeletes, tokenDeletes, deletedTokens, registryVars, idleCacheVars, otherVars,
                   clustersToDelete, elapsed, answer, stackList, prompts, waitResult, result>>

\* the order in which kubectl prints a set of names
RECURSIVE Listing(_)
Listing(set) ==
    IF set = {} THEN <<>>
    ELSE LET first == CHOOSE x \in set : \A y \in set : Len(x) <= Len(y)
         IN <<first>> \o Listing(set \ {first})

\* part_001 351-363: list the Opaque secrets and keep the ssh ones
ListSecrets ==
    /\ pc = "secrets"
    /\ \E ok \in Outcomes :
          /\ Fault(ok)
          /\ queue' = IF ok THEN Listing({x \in secrets : IsSSHSecret(x)}) ELSE <<>>
    /\ pc' = IF queue' = <<>> THEN "resources" ELSE "secrets-loop"
    /\ UNCHANGED <<flagVars, worldVars, callVars, registryVars, idleCacheVars, otherVars,
                   clustersToDelete, elapsed, answer, stackList, prompts, waitResult, result>>

\* part_001 365-374: kubectl delete secret <name>
DeleteSecret ==
    /\ pc = "secrets-loop"
    /\ secretDeletes' = secretDeletes \cup {Head(queue)}
    /\ \E ok \in Outcomes :
          /\ Fault(ok)
          /\ secrets' = IF ok THEN secrets \ {Head(queue)} ELSE secrets
    /\ queue' = Tail(queue)
    /\ pc' = IF queue' = <<>> THEN "resources" ELSE "secrets-loop"
    /\ UNCHANGED <<flagVars, releases, resources, pods, namespace, uninstallCalls,
                   resourceDeletes, resourceChecks, nsDeletes, tokenDeletes, deletedTokens,
                   registryVars, idleCacheVars, otherVars, clustersToDelete, elapsed, answer, stackList,
                   prompts, waitResult, result>>

\* part_001 380-422: the whole loop over resourceTypes; for every kind that
\* has resources under the run's label selector, kubectl delete by that label
Selected(kind) ==
    {res \in resources : res.kind = kind /\ SelectedBy(res, cmd.all, cmd.name)}

VisitedUntilFailure(kinds, failed) ==
    {kinds[i] : i \in {j \in 1..Len(kinds) : \A k \in 1..(j - 1) : kinds[k] \notin failed}}

\* part_001 390-421: the loop has no break and no return
Visited(kinds, failed) == SeqToSet(kinds)

CleanResources ==
    /\ pc = "resources"
    /\ \E failed \in SUBSET {k \in SeqToSet(resourceTypes) : Selected(k) # {}} :
          /\ Cardinality(failed) <= MaxFaults - faults
          /\ faults' = faults + Cardinality(failed)
          /\ resourceChecks' = resourceChecks \cup Visited(resourceTypes, failed)
          /\ resourceDeletes' = resourceDeletes \cup
                {[kind |-> k, selector |-> Selector(cmd.all, cmd.name)] :
                    k \in {kind \in Visited(resourceTypes, failed) : Selected(kind) # {}}}
          /\ resources' = {res \in resources :
                              \/ res.kind \in failed
                              \/ res.kind \notin Visited(resourceTypes, failed)
                              \/ ~SelectedBy(res, cmd.all, cmd.name)}
    /\ pc' = "wait"
    /\ UNCHANGED <<flagVars, releases, secrets, pods, namespace, uninstallCalls,
                   secretDeletes, nsDeletes, tokenDeletes, deletedTokens, registryVars,
                   idleCacheVars, otherVars, clustersToDelete, queue, elapsed, answer, stackList, prompts,
                   waitResult, result>>

\* part_001 424-435 and 496-498
BeginWait ==
    /\ pc = "wait"
    /\ IF cmd.noWait
       THEN waitResult' = "skipped" /\ pc' = "namespace"
       ELSE waitResult' = "none" /\ pc' = "poll"
    /\ elapsed' = 0
    /\ UNCHANGED <<flagVars, worldVars, callVars, registryVars, idleCacheVars, otherVars,
                   clustersToDelete, queue, faults, answer, stackList, prompts, result>>

WaitsForAny(pod) == TRUE

\* part_001 435-495: one round of the wait. The pods of a release that is no
\* longer installed may have terminated since the last round.
WaitsFor(pod) == cmd.all \/ pod = cmd.name

\* part_001 437-440: the timeout is a warning and the loop is left
TimeoutFails ==
    /\ waitResult' = "timeout"
    /\ Return("error: timed out")

TimeoutBreak ==
    /\ waitResult' = "timeout"
    /\ pc' = "namespace"
    /\ UNCHANGED result

TickStuck(secs) == secs

\* part_001 430 and 491-494: the loop blocks on the 2 s ticker before the
\* next round
Tick(secs) == secs + TickSeconds

Poll ==
    /\ pc = "poll"
    /\ \E late \in TimedOut(elapsed, cmd.timeout) :
          IF late
          THEN /\ TimeoutBreak
               /\ UNCHANGED <<pods, elapsed, faults>>
          ELSE /\ pods' \in {pods, pods \cap SeqToSet(releases)}
               /\ \E ok \in Outcomes :
                     /\ Fault(ok)
                     /\ IF ~ok \/ {pod \in pods' : WaitsFor(pod)} = {}
                        THEN /\ waitResult' = "terminated"
                             /\ pc' = "namespace"
                             /\ UNCHANGED elapsed
                        ELSE /\ elapsed' = Tick(elapsed)
                             /\ UNCHANGED <<waitResult, pc>>
               /\ UNCHANGED result
    /\ UNCHANGED <<flagVars, releases, secrets, resources, namespace, callVars,
                   registryVars, idleCacheVars, otherVars, clustersToDelete, queue, answer,
                   stackList, prompts>>

\* part_001 499-509 and 537-541: the re-query for remaining releases; a failed
\* query leaves hasRemainingReleases false
HasRemainingReleases(ok, rels) == ok /\ rels # <<>>

AutoConfirmsNever(c) == FALSE

\* part_001 513 and 522-524: with force, deleteNamespace = true, no prompt
AutoConfirms(c) == c.force

ReconcileNamespace ==
    /\ pc = "namespace"
    /\ \E ok \in (IF cmd.all /\ helmPath THEN Outcomes ELSE {TRUE}) :
          /\ Fault(ok)
          /\ IF ~cmd.all \/ ~helmPath \/ HasRemainingReleases(ok, releases)
             THEN pc' = "revoke" /\ queue' = clustersToDelete
             ELSE /\ pc' = IF AutoConfirms(cmd) THEN "ns-delete" ELSE "ns-prompt"
                  /\ UNCHANGED queue
    /\ UNCHANGED <<flagVars, worldVars, callVars, registryVars, idleCacheVars, otherVars,
                   clustersToDelete, elapsed, answer, stackList, prompts, waitResult, result>>

\* part_001 511-521: the namespace prompt
NamespacePrompt ==
    /\ pc = "ns-prompt"
    /\ prompts' = prompts \cup {"namespace"}
    /\ \E reply \in {"yes", "no", "error"} :
          IF reply = "error"
          THEN Return("error: prompt cancelled") /\ UNCHANGED queue
          ELSE /\ IF reply = "yes" THEN pc' = "ns-delete" /\ UNCHANGED queue
                  ELSE pc' = "revoke" /\ queue' = clustersToDelete
               /\ UNCHANGED result
    /\ UNCHANGED <<flagVars, worldVars, callVars, registryVars, idleCacheVars, otherVars,
                   clustersToDelete, elapsed, faults, answer, stackList, waitResult>>

\* part_001 526-536: kubectl delete namespace buildkite
DeleteNamespace ==
    /\ pc = "ns-delete"
    /\ nsDeletes' = nsDeletes + 1
    /\ \E ok \in Outcomes :
          /\ Fault(ok)
          /\ IF ok
             THEN /\ namespace' = FALSE
                  /\ releases' = <<>>
                  /\ secrets' = {}
                  /\ resources' = {}
                  /\ pods' = {}
             ELSE UNCHANGED worldVars
    /\ pc' = "revoke"
    /\ queue' = clustersToDelete
    /\ UNCHANGED <<flagVars, uninstallCalls, secretDeletes, resourceDeletes, resourceChecks,
                   tokenDeletes, deletedTokens, registryVars, idleCacheVars, otherVars,
                   clustersToDelete, elapsed, answer, stackList, prompts, waitResult, result>>

RemainingUnlessFailed(q, resp) == IF resp = "ok" THEN Tail(q) ELSE <<>>

\* part_001 546 and 554-556: a failed DeleteToken is printed and the loop
\* goes on with the next cluster
Remaining(q, resp) == Tail(q)

\* part_001 543-569: one round of the loop over clustersToDelete:
\* Client.DeleteToken, then on success Client.RemoveTokenFromCluster
RevokeNext ==
    /\ pc = "revoke"
    /\ queue # <<>>
    /\ LET c == Head(queue) IN
       /\ tokenDeletes' = tokenDeletes \cup {[cluster |-> c.uuid, id |-> c.tokenID]}
       /\ \E up \in Outcomes :
             LET resp == RegistryDelete(c.uuid, c.tokenID, up) IN
             /\ registry' = RegistryAfter(c.uuid, c.tokenID, resp)
             /\ deleted' = DeletedAfter(c.uuid, c.tokenID, resp)
             /\ IF DeleteTokenOk(resp)
                THEN /\ deletedTokens' = deletedTokens + 1
                     /\ recent' = ClearToken(recent, c.uuid, c.tokenID)
                     /\ \E ok \in (IF up /\ HasTokenMatch(recent, c.uuid, c.tokenID)
                                   THEN Outcomes ELSE {TRUE}) :
                           /\ faults' = IF up /\ ok THEN faults ELSE faults + 1
                           /\ persisted' = IF ok /\ HasTokenMatch(recent, c.uuid, c.tokenID)
                                           THEN recent' ELSE persisted
                           /\ last' = Result("revoke", c.uuid, c.tokenID, "",
                                             ~ok \/ ~HasTokenMatch(recent, c.uuid, c.tokenID))
                ELSE /\ Fault(up)
                     /\ last' = Result("revoke", c.uuid, c.tokenID, resp, FALSE)
                     /\ UNCHANGED <<recent, persisted, deletedTokens>>
             /\ queue' = Remaining(queue, resp)
    /\ UNCHANGED <<pc, flagVars, worldVars, uninstallCalls, secretDeletes,
                   resourceDeletes, resourceChecks, nsDeletes, idleCacheVars, otherVars, clustersToDelete,
                   elapsed, answer, stackList, prompts, waitResult, result>>

\* part_001 570-587: the summary; the run returns nil
Summary ==
    /\ pc = "revoke"
    /\ queue = <<>>
    /\ Return("ok")
    /\ UNCHANGED <<flagVars, worldVars, callVars, registryVars, idleCacheVars, otherVars,
                   clustersToDelete, queue, elapsed, faults, answer, stackList, prompts,
                   waitResult>>

NextDelete ==
    \/ CheckInstalled
    \/ Discover
    \/ SelectStack
    \/ Connect
    \/ PlanRevocation
    \/ Confirm
    \/ UninstallTargets
    \/ UninstallNext
    \/ ListSecrets
    \/ DeleteSecret
    \/ CleanResources
    \/ BeginWait
    \/ Poll
    \/ ReconcileNamespace
    \/ NamespacePrompt
    \/ DeleteNamespace
    \/ RevokeNext
    \/ Summary

SpecDelete == DeleteInit /\ [][NextDelete]_vars

\* A run whose every external call returns and whose ticker fires: the run is
\* one sequential flow, so whenever a step of it is possible one is taken.
SpecDeleteFair == DeleteInit /\ [][NextDelete]_vars /\ WF_vars(NextDelete)

\* SIGINT while the run is in the wait loop of part_001 435-495. Nothing in
\* the program calls signal.Notify and the loop selects on the ticker only
\* (491-494), so the Go runtime's default action ends the process at once:
\* no later statement of Run and no deferred call is executed.
Interrupt ==
    /\ pc = "poll"
    /\ pc' = "killed"
    /\ waitResult' = "interrupted"
    /\ result' = "signal: interrupt"
    /\ UNCHANGED <<flagVars, worldVars, callVars, registryVars, idleCacheVars, otherVars,
                   clustersToDelete, queue, elapsed, faults, answer, stackList, prompts>>

NextDeleteInterrupted ==
    \/ NextDelete
    \/ Interrupt

\* a delete run that may be interrupted during its wait
SpecDeleteInterrupted == DeleteInit /\ [][NextDeleteInterrupted]_vars

\* ---------------------------------------------------------- StatusCmd.Run

\* what a status run never touches
statusFrame == <<helmPath, client, helmFormat, given, installed, callVars,
                 clustersToDelete, queue, elapsed, stackList, waitResult, last,
                 deleted, renamed, saveFails, seen, configVars, procs>>

\* the cluster, the registry and the cache
statusWorld == <<releases, secrets, resources, pods, namespace, recent, persisted,
                 registry, nextTok>>

\* the clusters the organisation has at the registry (Client.ListClusters)
KnownClusters == {1}

\* the release `kez stack create` installs when the offer is accepted
StackNew == <<"q", "a">>

StatusInit ==
    /\ pc = "status"
    /\ cmd \in [verbose : BOOLEAN, refresh : {FALSE}]
    /\ given = cmd
    /\ helmPath \in BOOLEAN
    /\ client \in BOOLEAN
    /\ helmFormat = "compact"
    /\ namespace \in BOOLEAN
    /\ releases \in (IF namespace THEN ReleaseOptions ELSE {<<>>})
    /\ installed = releases
    /\ pods \in SUBSET SeqToSet(releases)
    /\ secrets = {GitSSHKey(r) : r \in SeqToSet(releases)}
    /\ resources = UNION {ChartResources(r) : r \in SeqToSet(releases)}
    /\ recent \in CacheOptions
    /\ persisted = recent
    /\ registry = {[cluster |-> recent[i].uuid, id |-> recent[i].tokenID] :
                     i \in {j \in 1..Len(recent) : HasToken(recent[j])}}
    /\ deleted = {}
    /\ nextTok = MaxCache + 1
    /\ renamed = {}
    /\ saveFails = 0
    /\ seen = 0
    /\ last = Result("init", 0, "", "", FALSE)
    /\ clustersToDelete = <<>>
    /\ queue = <<>>
    /\ elapsed = 0
    /\ faults = 0
    /\ answer = "none"
    /\ stackList = [listed |-> FALSE, names |-> <<>>]
    /\ prompts = {}
    /\ uninstallCalls = {}
    /\ secretDeletes = {}
    /\ resourceDeletes = {}
    /\ resourceChecks = {}
    /\ nsDeletes = 0
    /\ tokenDeletes = {}
    /\ deletedTokens = 0
    /\ waitResult = "none"
    /\ result = "running"
    /\ ConfigIdle
    /\ StatusIdle
    /\ ProcsIdle

\* part_000 28-58: api.NewClient, k8s.VerifyClusterConnection, the kubectl
\* lookup and `kubectl config current-context`; each failure returns an error
StatusConnect ==
    /\ pc = "status"
    /\ \E ok \in Outcomes :
          /\ Fault(ok)
          /\ IF ~client THEN Return("error: api client")
             ELSE IF ~ok THEN Return("error: kubernetes connection")
             ELSE pc' = "st-installed" /\ UNCHANGED result
    /\ UNCHANGED <<cmd, statusFrame, statusWorld, answer, prompts, report>>

OffersCreateAlways(stackInstalled) == TRUE

\* part_000 72: if !stackInstalled
OffersCreate(stackInstalled) == ~stackInstalled

\* part_000 66-70: k8s.IsAgentStackInstalled
StatusCheckInstalled ==
    /\ pc = "st-installed"
    /\ \E out \in {"ok"} \cup (IF faults < MaxFaults THEN {"ns-error", "pods-error"} ELSE {}) :
          /\ Fault(out = "ok")
          /\ IF out = "ns-error" THEN Return("error: check installed")
             ELSE IF OffersCreate(namespace /\ (out = "pods-error" \/ pods # {}))
                  THEN pc' = "st-offer" /\ UNCHANGED result
                  ELSE pc' = "st-releases" /\ UNCHANGED result
    /\ UNCHANGED <<cmd, statusFrame, statusWorld, answer, prompts, report>>

\* part_000 75-92: "Would you like to create a new agent stack?"
StatusOffer ==
    /\ pc = "st-offer"
    /\ \E reply \in {"yes", "no", "error"} :
          /\ answer' = reply
          /\ prompts' = prompts \cup {"create"}
          /\ IF reply = "error" THEN Return("error: prompt cancelled")
             ELSE IF reply = "yes" THEN pc' = "st-create" /\ UNCHANGED result
             ELSE Return("ok")
    /\ UNCHANGED <<cmd, statusFrame, statusWorld, faults, report>>

\* what a stack creation leaves alone
createFrame == <<helmPath, client, helmFormat, given, installed, callVars,
                 clustersToDelete, queue, elapsed, stackList, waitResult,
                 deleted, renamed, seen, configVars, procs>>

\* part_000 86-90: return createCmd.Run(ctx). CreateCmd.Run (part_002) stops
\* after `stage` of its steps: 1 the cluster is chosen and upserted into the
\* cache, an error of the upsert being only printed (163-166), 2 a token is
\* minted for it (255) unless the user typed one (228), 3 the namespace and
\* the ssh secret are created (361-415), 4 the release is installed (465)
StatusCreate ==
    /\ pc = "st-create"
    /\ \E stage \in 0..4, mint \in BOOLEAN, upsertSaved \in BOOLEAN, tokenSaved \in BOOLEAN :
          LET upserted == AddRecent(recent, 1, NameDev)
              cached == IF stage >= 1 THEN AfterSave(recent, upserted, upsertSaved)
                        ELSE recent
              stored == IF stage >= 1 /\ upsertSaved THEN upserted ELSE persisted
              minted == stage >= 2 /\ mint
              list == IF minted
                      THEN SetToken(cached, 1, TokenName[nextTok], SecretName[nextTok])
                      ELSE cached
              saves == minted /\ HasUUID(cached, 1)
              failed == (IF stage >= 1 /\ ~upsertSaved THEN 1 ELSE 0)
                        + (IF saves /\ ~tokenSaved THEN 1 ELSE 0)
          IN /\ stage = 0 => upsertSaved
             /\ ~saves => tokenSaved
             /\ saveFails + failed <= MaxSaveFails
             /\ saveFails' = saveFails + failed
             /\ recent' = list
             /\ persisted' = IF saves /\ tokenSaved THEN list ELSE stored
             /\ last' = IF minted
                        THEN Result("create", 1, TokenName[nextTok], CreateErr(tokenSaved),
                                    saves /\ ~tokenSaved)
                        ELSE IF stage >= 1
                        THEN Result("add", 1, "", IF upsertSaved THEN "" ELSE "save", FALSE)
                        ELSE last
             /\ registry' = IF minted
                            THEN registry \cup {[cluster |-> 1, id |-> TokenName[nextTok]]}
                            ELSE registry
             /\ nextTok' = IF minted THEN nextTok + 1 ELSE nextTok
             /\ namespace' = (namespace \/ stage >= 3)
             /\ secrets' = IF stage >= 3 THEN secrets \cup {GitSSHKey(StackNew)} ELSE secrets
             /\ releases' = IF stage = 4 THEN Append(releases, StackNew) ELSE releases
             /\ pods' = IF stage = 4 THEN pods \cup {StackNew} ELSE pods
             /\ resources' = IF stage = 4 THEN resources \cup ChartResources(StackNew)
                             ELSE resources
             /\ \E res \in (IF stage = 4 THEN {"ok"}
                            ELSE IF stage = 3 THEN {"ok", "error: create"}
                            ELSE {"error: create"}) : Return(res)
    /\ UNCHANGED <<cmd, createFrame, faults, answer, prompts, report>>

\* part_000 97-178: the helm lookup, `helm list`, and per stack the version
\* from `helm list --filter`; every failure is a warning or is passed over
StatusReleases ==
    /\ pc = "st-releases"
    /\ \E listed \in (IF helmPath THEN Outcomes ELSE {TRUE}) :
       \E versioned \in (IF helmPath /\ listed /\ releases # <<>> THEN Outcomes ELSE {TRUE}) :
          /\ Fault(listed /\ versioned)
          /\ report' = [report EXCEPT
                !.stacks = IF ~helmPath THEN "helm missing"
                           ELSE IF ~listed THEN "unknown"
                           ELSE IF releases = <<>> THEN "no stacks"
                           ELSE "listed",
                !.versions = IF ~helmPath \/ ~listed \/ releases = <<>> THEN "none"
                             ELSE IF versioned THEN "shown"
                             ELSE "unknown"]
    /\ pc' = "st-pods"
    /\ UNCHANGED <<cmd, statusFrame, statusWorld, answer, prompts, result>>

\* the errors of k8s.GetAgentPodsStatus, provider.go 134-145
PodStatusErrors == {"kubectl not found in PATH", "failed to get agent pods"}

PodStatusDegradesAlways(err) == TRUE

\* part_000 194: strings.Contains(err.Error(), "buildkite not found")
PodStatusDegrades(err) == err = "buildkite not found"

\* part_000 180-217: k8s.GetAgentPodsStatus
StatusPods ==
    /\ pc = "st-pods"
    /\ \E err \in {""} \cup (IF faults < MaxFaults THEN PodStatusErrors ELSE {}) :
          /\ Fault(err = "")
          /\ IF err # "" /\ ~PodStatusDegrades(err)
             THEN Return("error: pod status") /\ UNCHANGED report
             ELSE /\ pc' = "st-registry"
                  /\ report' = [report EXCEPT
                        !.pods = IF err # "" THEN "no namespace"
                                 ELSE IF pods = {} THEN "no pods"
                                 ELSE "running"]
                  /\ UNCHANGED result
    /\ UNCHANGED <<cmd, statusFrame, statusWorld, answer, prompts>>

\* part_000 219-264: the most recent cluster of the cache is looked up among
\* the clusters of the registry
StatusRegistry ==
    /\ pc = "st-registry"
    /\ \E ok \in (IF recent # <<>> THEN Outcomes ELSE {TRUE}) :
          /\ Fault(ok)
          /\ report' = [report EXCEPT
                !.cluster = IF recent = <<>> THEN "no recent cluster"
                            ELSE IF ~ok THEN "unknown"
                            ELSE IF recent[Len(recent)].uuid \in KnownClusters
                            THEN "connected"
                            ELSE "not identified"]
    /\ pc' = "st-api"
    /\ UNCHANGED <<cmd, statusFrame, statusWorld, answer, prompts, result>>

\* part_000 266-305: the connectivity check and the summary; the summary
\* line reads apiCtx.Err(), which is set by a timeout only
StatusAPI ==
    /\ pc = "st-api"
    /\ \E out \in {"ok"} \cup (IF faults < MaxFaults THEN {"refused", "timeout"} ELSE {}) :
          /\ Fault(out = "ok")
          /\ report' = [report EXCEPT
                !.api = IF out = "ok" THEN "connected" ELSE "failed",
                !.summary = IF out = "timeout" THEN "not connected" ELSE "connected"]
    /\ Return("ok")
    /\ UNCHANGED <<cmd, statusFrame, statusWorld, answer, prompts>>

NextStatus ==
    \/ StatusConnect
    \/ StatusCheckInstalled
    \/ StatusOffer
    \/ StatusCreate
    \/ StatusReleases
    \/ StatusPods
    \/ StatusRegistry
    \/ StatusAPI

SpecStatus == StatusInit /\ [][NextStatus]_vars

\* ------------------------------------------------- concurrent invocations

WrittenMerged(doc, mem) ==
    LET Missing(rec) == ~HasUUID(mem, rec.uuid) IN mem \o SelectSeq(doc, Missing)

\* config.go 262-268: the whole in-memory configuration is marshalled and
\* os.WriteFile replaces the document with it, whatever the document holds
Written(doc, mem) == mem

\* the cluster process p selects and upserts: each a different one
SelectedCluster(p) == p

\* the processes that have written their configuration
Savers == {p \in Procs : procs[p].pc = "done" /\ procs[p].err = ""}

\* the document the processes find: any of the caches a run can start with
ProcessesInit ==
    /\ persisted \in CacheOptions
    /\ recent = persisted
    /\ registry = {[cluster |-> recent[i].uuid, id |-> recent[i].tokenID] :
                     i \in {j \in 1..Len(recent) : HasToken(recent[j])}}
    /\ deleted = {}
    /\ nextTok = MaxCache + 1
    /\ renamed = {}
    /\ saveFails = 0
    /\ seen = 0
    /\ last = Result("init", 0, "", "", FALSE)
    /\ RunIdle
    /\ ConfigIdle
    /\ StatusIdle
    /\ ProcsIdle

\* api.NewClient in process p: config.Load reads the document, no lock taken
ProcessLoad(p) ==
    /\ procs[p].pc = "start"
    /\ procs' = [procs EXCEPT ![p] = Process("loaded", persisted, persisted, Savers, 0, "")]
    /\ UNCHANGED <<cacheVars, runVars, configVars, report>>

\* Client.AddRecentCluster in process p, for the cluster p has selected
\* (process p selects cluster p): the upsert in its own memory, then config.Save
ProcessAddRecentCluster(p) ==
    /\ procs[p].pc = "loaded"
    /\ \E ok \in SaveOutcomes :
          LET mem == AddRecent(procs[p].config, SelectedCluster(p),
                               ClusterName(SelectedCluster(p))) IN
          /\ procs' = [procs EXCEPT ![p] =
                          Process("done", procs[p].loaded,
                                  AfterSave(procs[p].config, mem, ok), procs[p].saw,
                                  IF ok THEN Cardinality(Savers) + 1 ELSE 0,
                                  IF ok THEN "" ELSE "save")]
          /\ Saved(Written(persisted, mem), ok)
    /\ UNCHANGED <<recent, registry, deleted, nextTok, renamed, seen, last>>
    /\ UNCHANGED <<runVars, configVars, report>>

NextProcesses ==
    \/ \E p \in Procs : ProcessLoad(p)
    \/ \E p \in Procs : ProcessAddRecentCluster(p)

SpecProcesses == ProcessesInit /\ [][NextProcesses]_vars

\* ------------------------------------------------------------ cache claims

RecordOf(list, u) == list[IndexOf(list, u)]

\* C1: whatever calls were made, the cache holds at most 10 records and no two
\* of them have the same uuid.
C1_BoundedNoDuplicates ==
    /\ Len(recent) <= maxRecent
    /\ \A i, j \in 1..Len(recent) : recent[i].uuid = recent[j].uuid => i = j

\* an eleventh cluster was added and the oldest record trimmed away
C1_Witness ==
    /\ last.op = "add"
    /\ seen > maxRecent
    /\ Len(recent) = maxRecent
    /\ ~HasUUID(recent, 1)

\* C2 (as claimed): after AddRecentCluster(c) the record of c is the last
\* element of GetRecentClusters(), also when c was already in the cache.
C2_AddedIsLast ==
    (last.op = "add" /\ recent # <<>>) => recent[Len(recent)].uuid = last.uuid

\* C3: AddRecentCluster on a uuid whose record holds a token leaves that
\* record's tokenID and tokenVal as they were.
C3_AddKeepsToken ==
    [][\A i \in 1..Len(recent) :
          (last'.op = "add" /\ last'.uuid = recent[i].uuid /\ recent[i].tokenID # "")
          => /\ HasUUID(recent', recent[i].uuid)
             /\ RecordOf(recent', recent[i].uuid).tokenID = recent[i].tokenID
             /\ RecordOf(recent', recent[i].uuid).tokenVal = recent[i].tokenVal]_vars

\* a cluster holding a token was added again, under its new name
C3_Witness ==
    /\ last.op = "add"
    /\ HasUUID(recent, last.uuid)
    /\ RecordOf(recent, last.uuid).tokenID # ""
    /\ RecordOf(recent, last.uuid).name = NameOps

\* C4 (as claimed): with the registry reachable, every revocation of a
\* (cluster, token) pair is reported as success, the second one too, and
\* leaves no record of the cluster holding the token.
C4_RevokeTwiceSucceeds ==
    (last.op = "revoke" /\ last.err # "unreachable")
    => /\ last.err = ""
       /\ ~HasTokenMatch(recent, last.uuid, last.tok)

\* the token a record of the list holds, as the registry names it
TokenOf(rec) == [cluster |-> rec.uuid, id |-> rec.tokenID]

\* C11: RemoveTokenFromCluster(uuid, tokenID) changes a record only if the
\* record's uuid and stored tokenID both equal the arguments, and then only
\* by emptying its token fields; when no record matches both, it reports
\* not-found, changes no record and writes nothing to the store.
C11_RemoveNeedsBothToMatch ==
    [][last'.op = "remove"
       => /\ Len(recent') = Len(recent)
          /\ \A i \in 1..Len(recent) :
                recent'[i] # recent[i]
                => /\ recent[i].uuid = last'.uuid
                   /\ recent[i].tokenID = last'.tok
                   /\ recent'[i] = [recent[i] EXCEPT !.tokenID = "", !.tokenVal = ""]
          /\ (\A i \in 1..Len(recent) :
                 recent[i].uuid # last'.uuid \/ recent[i].tokenID # last'.tok)
             => /\ last'.err = "notfound"
                /\ recent' = recent
                /\ persisted' = persisted
          /\ (\E i \in 1..Len(recent) :
                 recent[i].uuid = last'.uuid /\ recent[i].tokenID = last'.tok)
             => /\ last'.err # "notfound"
                /\ ~HasUUID(recent', last'.uuid) \/ RecordOf(recent', last'.uuid).tokenID = ""
      ]_vars

\* the record was rotated to a newer token, and the removal of the older one
\* was refused
C11_Witness ==
    /\ last.op = "remove"
    /\ last.err = "notfound"
    /\ last.tok # ""
    /\ HasUUID(recent, last.uuid)
    /\ RecordOf(recent, last.uuid).tokenID \notin {"", last.tok}

\* C12 (as claimed): after CreateToken or CreateTokenWithDescription returned
\* a token, the cache holds a record of that cluster with the token's id and
\* value, also when the cluster was not in the cache before.
C12_CreateUpsertsRecord ==
    (last.op = "create" /\ last.err = "" /\ last.tok # "")
    => /\ HasUUID(recent, last.uuid)
       /\ RecordOf(recent, last.uuid).tokenID = last.tok
       /\ RecordOf(recent, last.uuid).tokenVal # ""

\* C13: a create whose registry call succeeded and whose config.Save failed
\* returns the token with no error and a warning, and the token stays in the
\* registry; a create whose registry call failed returns an error and leaves
\* the cache, the store and the registry as they were.
C13_SaveFailureIsWarning ==
    [][last'.op = "create"
       => /\ last'.warn
             => /\ last'.err = ""
                /\ last'.tok # ""
                /\ [cluster |-> last'.uuid, id |-> last'.tok] \in registry' \ registry
                /\ persisted' = persisted
                /\ saveFails' = saveFails + 1
          /\ last'.err = "registry"
             => /\ last'.tok = ""
                /\ recent' = recent
                /\ persisted' = persisted
                /\ registry' = registry
          /\ (saveFails' > saveFails /\ last'.err # "crash") => last'.warn
      ]_vars

C13_Witness ==
    /\ last.op = "create"
    /\ last.warn
    /\ last.err = ""
    /\ [cluster |-> last.uuid, id |-> last.tok] \in registry
    /\ HasUUID(recent, last.uuid)
    /\ RecordOf(recent, last.uuid).tokenID = last.tok
    /\ persisted # recent

\* C14: in a token issuance or revocation the registry is mutated before the
\* cache: no record of the cache, in memory or in the store, holds a tokenID
\* the registry has not minted, and a revocation empties a record's token
\* fields only when the registry has deleted that token, also when the
\* process dies between the two steps.
C14_RegistryBeforeCache ==
    [][last'.op \in {"create", "revoke"}
       => /\ \A i \in 1..Len(recent') :
                HasToken(recent'[i]) => TokenOf(recent'[i]) \in registry' \cup deleted'
          /\ \A i \in 1..Len(persisted') :
                HasToken(persisted'[i]) => TokenOf(persisted'[i]) \in registry' \cup deleted'
          /\ last'.op = "revoke"
             => \A i \in 1..Len(recent) :
                   (/\ HasToken(recent[i])
                    /\ HasUUID(recent', recent[i].uuid)
                    /\ ~HasToken(RecordOf(recent', recent[i].uuid))
                    /\ HasUUID(persisted, recent[i].uuid)
                    /\ HasToken(RecordOf(persisted, recent[i].uuid)))
                   => TokenOf(recent[i]) \in deleted'
      ]_vars

\* the process died after the registry deleted the token: the cache is stale
C14_Witness ==
    /\ last.op = "revoke"
    /\ last.err = "crash"
    /\ HasUUID(recent, last.uuid)
    /\ RecordOf(recent, last.uuid).tokenID = last.tok
    /\ [cluster |-> last.uuid, id |-> last.tok] \in deleted

\* C23 (as claimed): when an upsert of a new cluster finds the cache full, the
\* record touched by the upsert just before it, being among the most
\* recently touched, is not the one evicted.
C23_EvictsLeastRecentlyTouched ==
    [][(/\ last.op = "add"
        /\ HasUUID(recent, last.uuid)
        /\ last'.op = "add"
        /\ ~HasUUID(recent, last'.uuid)
        /\ Len(recent) = maxRecent)
       => HasUUID(recent', last.uuid)]_vars

\* ----------------------------------------------------------- config claims

\* the last call was a Load that got past the directory and the read
Loaded == cfgCall.op = "load" /\ cfgCall.err \notin {"create config directory", "read config file"}

\* C24: Load returns the default configuration, with an empty recent-cluster
\* list, and no error when the config file is missing or empty; when the
\* content is not a well-formed document it returns a parse error and no
\* configuration, neither the default one nor a partly filled one.
C24_LoadDefaultsOrParseError ==
    Loaded =>
        /\ configFile.kind \in {"missing", "empty"} =>
              /\ cfgCall.err = ""
              /\ ~cfgCall.nil
              /\ cfgCall.cfg = Config("", "", "orbstack", <<>>)
        /\ configFile.kind = "invalid" =>
              /\ cfgCall.err = "parse"
              /\ cfgCall.nil

\* a Load of a document cut short, whose text holds credentials
C24_Witness ==
    /\ Loaded
    /\ configFile.kind = "invalid"
    /\ configFile.value.buildkite.token = "bkua"
    /\ cfgCall.err = "parse"

\* C25: a Load that follows a successful Save returns exactly the
\* configuration that was saved (credentials, preferred provider and the
\* recent-cluster list in order), also when Save had to create the directory.
C25_SaveThenLoadIsIdentity ==
    (Loaded /\ cfgCall.prev.op = "save" /\ cfgCall.prev.err = "") =>
        /\ cfgCall.err = ""
        /\ ~cfgCall.nil
        /\ cfgCall.cfg = cfgCall.prev.cfg

\* a configuration with credentials, two clusters and a token, saved into a
\* directory that Save created, then loaded
C25_Witness ==
    /\ Loaded
    /\ cfgCall.prev.op = "save"
    /\ cfgCall.prev.err = ""
    /\ cfgCall.prev.mkdir
    /\ cfgCall.cfg = Config("bkua", OrgSlug, "kind", <<ClusterTwo, ClusterOne>>)

\* ----------------------------------------------------------- status claims

\* the releases, resources and namespace of the cluster, the tokens of the
\* registry, and the cache in memory and on disk
ClusterRegistryAndCache ==
    <<releases, secrets, resources, pods, namespace, registry, deleted, recent, persisted>>

\* C21 (as claimed): no step of a status run changes the releases, the
\* resources, the namespace, the tokens or the cache.
C21_StatusIsReadOnly == [][UNCHANGED ClusterRegistryAndCache]_vars

\* C21 (amended): a step of a status run changes the releases, the resources,
\* the namespace, the tokens or the cache only when no agent stack was found
\* (no namespace, or no agent pod in it) and the user accepted the offer to
\* create one, the step being the stack creation the run hands over to.
C21_ReadOnlyUnlessCreateAccepted ==
    [][ClusterRegistryAndCache' # ClusterRegistryAndCache =>
          /\ pc = "st-create"
          /\ answer = "yes"
          /\ "create" \in prompts
          /\ ~(namespace /\ pods # {})]_vars

\* a status run on an installed stack that printed its whole report
C21_Witness ==
    /\ pc = "done"
    /\ result = "ok"
    /\ report.stacks = "listed"
    /\ report.pods = "running"
    /\ report.api = "connected"
    /\ prompts = {}
    /\ releases = installed

\* C22 (as claimed): a status run that has begun its probes always reaches
\* the summary and returns without error.
C22_ProbeFailureNeverAborts ==
    (pc = "done" /\ report.stacks # "none") =>
        (result = "ok" /\ report.summary # "none")

\* C22 (amended): a run that has begun its probes reaches the summary and
\* returns without error whichever of the release listing, the version
\* extraction, the registry cluster lookup and the registry connectivity
\* check failed, unless the pod readiness probe failed; a failed pod
\* readiness probe is never degraded to a line: the run returns an error
\* before the registry probes and the summary.
C22_OnlyPodProbeAborts ==
    /\ (pc = "done" /\ report.stacks # "none") =>
          \/ result = "ok" /\ report.summary # "none"
          \/ result = "error: pod status"
    /\ report.pods # "no namespace"
    /\ result = "error: pod status" =>
          /\ pc = "done"
          /\ report.pods = "none"
          /\ report.cluster = "none"
          /\ report.summary = "none"

\* the registry lookup failed and the run still printed the summary
C22_Witness ==
    /\ pc = "done"
    /\ report.cluster = "unknown"
    /\ report.api = "connected"
    /\ result = "ok"

\* ----------------------------------------------------- delete-run claims

\* no helm uninstall, secret, resource or namespace deletion, registry token
\* deletion or cache token clearing has been invoked
NoDestructiveAction ==
    /\ uninstallCalls = {}
    /\ secretDeletes = {}
    /\ resourceDeletes = {}
    /\ nsDeletes = 0
    /\ tokenDeletes = {}
    /\ deleted = {}
    /\ recent = persisted

Named == given.name # <<>> /\ ~given.all

\* C5 (as claimed): a run given a name that is not among the installed stacks
\* invokes no destructive action and ends with the not-found error.
C5_AbsentNameNotFound ==
    (Named /\ ~InSeq(installed, given.name))
    => /\ NoDestructiveAction
       /\ pc = "done" => result = "error: not found"

\* C5 (amended): when the release listing succeeded and listed at least one
\* stack, a given name that is not among the installed stacks ends the run
\* there with the not-found error and no destructive action.
C5_ListedAbsentNameNotFound ==
    (Named /\ ~InSeq(installed, given.name) /\ stackList.listed /\ stackList.names # <<>>)
    => /\ NoDestructiveAction
       /\ pc = "done"
       /\ result = "error: not found"

C5_Witness ==
    /\ given.name = StackQa
    /\ ~given.all
    /\ Len(installed) = 2
    /\ stackList.listed
    /\ result = "error: not found"

\* C6: with 'all' given and a release listing that finds no stack, the run
\* returns nil and has invoked no destructive action.
C6_AllOnNothingSucceeds ==
    (given.all /\ stackList.listed /\ stackList.names = <<>>)
    => /\ pc = "done"
       /\ result = "nothing"
       /\ NoDestructiveAction

C6_Witness ==
    /\ given.all
    /\ stackList.listed
    /\ stackList.names = <<>>
    /\ installed = <<>>
    /\ result = "nothing"

\* C7: without the force flag no destructive action happens before the user
\* has answered yes to the confirmation, and a run the user declines ends
\* with nil and none of those actions.
C7_ConfirmBeforeDestruction ==
    /\ (~cmd.force /\ answer # "yes") => NoDestructiveAction
    /\ answer = "no" => (pc = "done" /\ result = "cancelled" /\ NoDestructiveAction)

C7_Witness ==
    /\ ~cmd.force
    /\ answer = "no"
    /\ installed # <<>>
    /\ clustersToDelete # <<>>
    /\ result = "cancelled"

\* C8 (as claimed): in a run for a named stack every secret and every labeled
\* resource the run deletes is the named stack's, and helm uninstall is
\* invoked for the named release only.
C8_OnlyNamedStackTouched ==
    ~cmd.all
    => /\ \A secret \in secretDeletes : IsSSHSecretOf(secret, cmd.name)
       /\ \A del \in resourceDeletes : del.selector = cmd.name
       /\ uninstallCalls \subseteq {cmd.name}

\* the records of the cache whose name matches the target stack
MatchesTarget(u) ==
    \E i \in 1..Len(recent) : recent[i].uuid = u /\ NameMatches(recent[i], cmd.name)

\* C9 (as claimed): in a run for a named stack every token deleted from the
\* registry belongs to a cache record whose name matches the stack name.
C9_OnlyMatchingTokensRevoked ==
    ~cmd.all => \A del \in tokenDeletes : MatchesTarget(del.cluster)

\* C9 (amended): in a run for a named stack every token deleted from the
\* registry is the token of a planned record, and the planned records either
\* all match the stack name or are one single fallback record, planned only
\* when no record holding a token matches the name.
C9_MatchingOrSingleFallback ==
    ~cmd.all
    => /\ \A del \in tokenDeletes :
             \E i \in 1..Len(clustersToDelete) :
                 /\ clustersToDelete[i].uuid = del.cluster
                 /\ clustersToDelete[i].tokenID = del.id
       /\ \/ \A i \in 1..Len(clustersToDelete) :
                 NameMatches(clustersToDelete[i], cmd.name)
          \/ /\ Len(clustersToDelete) = 1
             /\ \A i \in 1..Len(recent) :
                   NameMatches(recent[i], cmd.name) => ~HasToken(recent[i])

\* the fallback record's token was deleted although its name does not match
C9_Witness ==
    /\ ~cmd.all
    /\ cmd.name = StackDev
    /\ Len(recent) = 2
    /\ tokenDeletes # {}
    /\ \A del \in tokenDeletes : ~MatchesTarget(del.cluster)

\* every planned revocation was attempted
AllRevocationsAttempted ==
    \A i \in 1..Len(clustersToDelete) :
        [cluster |-> clustersToDelete[i].uuid, id |-> clustersToDelete[i].tokenID]
            \in tokenDeletes

C15_NamespaceOnlyWhenEmpty ==
    [][nsDeletes' > nsDeletes => (cmd.all /\ releases = <<>>)]_vars

\* the record nearest the tail of the list that holds a token
MostRecentWithToken(list) == WithToken(list)[Len(WithToken(list))]

\* C16 (as claimed): in a run for a named stack where no record holding a
\* token matches the name, the planned revocations are exactly the most
\* recently used record that holds a token.
C16_FallbackIsMostRecent ==
    (/\ pc = "confirm"
     /\ client
     /\ ~cmd.all
     /\ WithToken(FindClusterByName(recent, cmd.name)) = <<>>
     /\ WithToken(recent) # <<>>)
    => clustersToDelete = <<MostRecentWithToken(recent)>>

\* C17 (as claimed): a run of scope 'all' that went through with helm
\* available and no call failing has invoked helm uninstall for every
\* release that was installed.
C17_AllUninstallsEveryRelease ==
    (cmd.all /\ helmPath /\ faults = 0 /\ result = "ok")
    => uninstallCalls = SeqToSet(installed)

\* the run was given neither a name nor 'all' and has found stacks to resolve
Unnamed == given.name = <<>> /\ ~given.all

NoNameErrors ==
    {"error: helm not available", "error: list failed", "error: multiple stacks"}

\* C18 (as claimed): a run given neither a name nor 'all' never ends with an
\* error for want of a name, and with more than one installed stack it
\* shows the selection prompt.
C18_UnnamedNeverFails ==
    Unnamed
    => /\ result \notin NoNameErrors
       /\ (Len(stackList.names) > 1 /\ pc \notin {"start", "discover"})
          => (pc = "select" \/ "select" \in prompts)

\* C18 (amended): a run given neither a name nor 'all' that gets past the
\* discovery of stacks ends with an error when helm is missing or the release
\* listing fails; otherwise one listed stack is selected without a prompt,
\* and more than one leads to the selection prompt without force and to an
\* error with force.
C18_UnnamedResolution ==
    (Unnamed /\ pc \notin {"start", "discover"}
             /\ result \notin {"nothing", "error: check installed"})
    => IF ~helmPath THEN result = "error: helm not available"
       ELSE IF ~stackList.listed THEN result = "error: list failed"
       ELSE IF Len(stackList.names) = 1
       THEN /\ cmd.name = stackList.names[1]
            /\ ~cmd.all
            /\ "select" \notin prompts
            /\ result \notin NoNameErrors
       ELSE IF given.force
       THEN result = "error: multiple stacks" /\ "select" \notin prompts
       ELSE /\ pc = "select" \/ "select" \in prompts
            /\ result \notin NoNameErrors
            /\ \/ pc = "select"
               \/ result = "error: selection cancelled"
               \/ cmd.all
               \/ InSeq(stackList.names, cmd.name)

C18_Witness ==
    /\ Unnamed
    /\ given.force
    /\ Len(stackList.names) = 2
    /\ result = "error: multiple stacks"

\* nothing of the cluster, the registry or the cache was changed by the run
NoMutation ==
    /\ uninstallCalls = {}
    /\ secretDeletes = {}
    /\ resourceDeletes = {}
    /\ nsDeletes = 0
    /\ releases = installed
    /\ deleted = {}
    /\ recent = persisted

C20_CacheAgreesWithRegistry ==
    result = "ok"
    => /\ \A i \in 1..Len(persisted) :
             HasToken(persisted[i]) => TokenOf(persisted[i]) \in registry
       /\ \A tok \in registry :
             \E i \in 1..Len(persisted) : TokenOf(persisted[i]) = tok

\* C26: a delete run invoked with force issues no prompt at all: no stack
\* selection, no delete confirmation and no namespace confirmation, the
\* namespace deletion being confirmed by the flag.
C26_ForceNeverPrompts ==
    given.force =>
        /\ prompts = {}
        /\ answer = "none"
        /\ pc # "ns-prompt"

\* a forced run of scope 'all' that went through the uninstall and deleted
\* the namespace
C26_Witness ==
    /\ given.force
    /\ given.all
    /\ uninstallCalls # {}
    /\ nsDeletes = 1
    /\ result = "ok"

\* the [cluster, id] pairs of the token-holding records of a list
TokensOf(list) ==
    {[cluster |-> list[i].uuid, id |-> list[i].tokenID] :
        i \in {j \in 1..Len(list) : list[j].tokenID # ""}}

\* C27: in a run of scope 'all' with a registry client, the revocation loop
\* attempts the token of every cache record that held one when the run began
\* (those tokens are the ones the registry holds or has deleted), each exactly
\* once: what was attempted and what is still queued never overlap, the queue
\* holds no token twice, and when the run returns every one was attempted,
\* whether or not an earlier deletion failed. The count of deleted tokens is
\* the number of tokens the registry has deleted.
C27_AllRevokesEveryTokenOnce ==
    (given.all /\ client /\ pc = "revoke") \/ (given.all /\ client /\ pc = "done" /\ result = "ok")
    => /\ tokenDeletes \cap TokensOf(queue) = {}
       /\ tokenDeletes \cup TokensOf(queue) = registry \cup deleted
       /\ Cardinality(TokensOf(queue)) = Len(queue)
       /\ deletedTokens = Cardinality(deleted)
       /\ pc = "done" => queue = <<>>

\* two records held a token; the first deletion failed, the second one was
\* attempted all the same and succeeded
C27_Witness ==
    /\ given.all
    /\ pc = "done"
    /\ result = "ok"
    /\ Cardinality(tokenDeletes) = 2
    /\ deletedTokens = 1
    /\ last.op = "revoke"
    /\ last.err = ""

\* C28: a failed helm uninstall never ends the run: whatever the outcome of
\* one uninstall, the release it was invoked for is recorded, the loop goes on
\* with the next target while there is one and to the secret cleanup after
\* the last, and from the secret cleanup the run goes on to the
\* labeled-resource cleanup and the wait, still running.
C28_UninstallFailureContinues ==
    [][/\ pc = "uninstall-loop" =>
             /\ uninstallCalls' = uninstallCalls \cup {Head(queue)}
             /\ queue' = Tail(queue)
             /\ pc' = IF Len(queue) > 1 THEN "uninstall-loop" ELSE "secrets"
             /\ result' = "running"
       /\ pc = "secrets" => pc' \in {"secrets-loop", "resources"} /\ result' = "running"
       /\ pc = "secrets-loop" => pc' \in {"secrets-loop", "resources"} /\ result' = "running"
       /\ pc = "resources" => pc' = "wait" /\ result' = "running"]_vars

\* of two releases the uninstall of the first failed; the second was
\* uninstalled and the run reached the labeled-resource cleanup
C28_Witness ==
    /\ installed = <<StackProd, StackDev>>
    /\ releases = <<StackProd>>
    /\ uninstallCalls = {StackProd, StackDev}
    /\ pc = "resources"

\* C29: the labeled-resource cleanup visits each of the nine kinds whether
\* or not the deletion of a kind fails, and goes on to the wait; a failed
\* deletion of a secret goes on with the next secret or with the cleanup; in
\* neither case does the run return.
C29_EveryKindVisited ==
    [][/\ pc = "resources" =>
             /\ resourceChecks' =
                   {"deployments", "statefulsets", "daemonsets", "services",
                    "configmaps", "secrets", "serviceaccounts", "roles", "rolebindings"}
             /\ pc' = "wait"
             /\ result' = "running"
       /\ pc = "secrets-loop" =>
             /\ secretDeletes' = secretDeletes \cup {Head(queue)}
             /\ pc' = IF Len(queue) > 1 THEN "secrets-loop" ELSE "resources"
             /\ result' = "running"]_vars

\* the deletion of the deployments failed, and the secrets, a later kind,
\* were deleted all the same
C29_Witness ==
    /\ pc = "wait"
    /\ Cardinality(resourceChecks) = 9
    /\ \E res \in resources : res.kind = "deployments" /\ (cmd.all \/ res.instance = cmd.name)
    /\ \E del \in resourceDeletes : del.kind = "secrets"
    /\ ~\E res \in resources : res.kind = "secrets" /\ (cmd.all \/ res.instance = cmd.name)

\* the non-terminal pods under the label selector of the run
MatchingPods(all) == {pod \in all : cmd.all \/ pod = cmd.name}

\* C30 (as claimed): a wait that found no matching pod when it began reports
\* success, whatever the timeout.
C30_NoPodsAlwaysSucceeds ==
    (pc = "namespace" /\ ~cmd.noWait /\ MatchingPods(pods) = {})
    => waitResult = "terminated"

\* C30 (amended): a poll that observes no matching pod, or whose query
\* fails, ends the wait at once with success; the wait goes on to the next
\* tick only after a poll that observed a matching pod; a wait with a timeout
\* of a second or more ends in a timeout only after such a poll, so that it
\* reports success when no matching pod exists as it begins, while a wait
\* with timeout 0 may time out before its first poll; with no-wait the run
\* goes from the cleanup to the namespace step without a poll.
C30_FirstEmptyPollEndsWait ==
    [][/\ (pc = "poll" /\ waitResult' = "terminated") =>
             /\ MatchingPods(pods') = {} \/ faults' > faults
             /\ elapsed' = elapsed
             /\ pc' = "namespace"
       /\ (pc = "poll" /\ pc' = "poll") =>
             /\ MatchingPods(pods') # {}
             /\ faults' = faults
             /\ elapsed' = elapsed + 2
       /\ (pc = "poll" /\ waitResult' = "timeout") =>
             /\ elapsed >= cmd.timeout
             /\ pc' = "namespace"
             /\ cmd.timeout > 0 => (elapsed > 0 /\ MatchingPods(pods) # {})
       /\ pc = "poll" => waitResult' \in {"none", "terminated", "timeout"}
       /\ (pc = "wait" /\ cmd.noWait) =>
             /\ pc' = "namespace"
             /\ waitResult' = "skipped"
             /\ elapsed' = 0]_vars

\* a wait with the largest timeout whose first poll found no matching pod
C30_Witness ==
    /\ pc = "namespace"
    /\ waitResult = "terminated"
    /\ cmd.timeout = MaxTimeout
    /\ elapsed = 0
    /\ faults = 0
    /\ installed # <<>>
    /\ MatchingPods(pods) = {}

\* ------------------------------------------------- cache claims, continued

\* C33 as stated: after every cache operation that reports success
\* (AddRecentCluster, CreateToken, CreateTokenWithDescription,
\* RemoveTokenFromCluster) the persisted document equals the in-memory list.
C33_SuccessMeansPersisted ==
    (last.op \in {"add", "create", "remove"} /\ last.err = "") => recent = persisted

\* C33, amended: AddRecentCluster and RemoveTokenFromCluster are write-through,
\* a nil error from them means the persisted document equals the in-memory
\* list; CreateToken and CreateTokenWithDescription are write-through only
\* when the cluster has a record and no save warning was printed.
C33_SuccessIsWrittenThrough ==
    /\ (last.op \in {"add", "remove"} /\ last.err = "") => recent = persisted
    /\ (/\ last.op = "create"
        /\ last.err = ""
        /\ ~last.warn
        /\ HasUUID(recent, last.uuid)) => recent = persisted

\* a token was minted for a cached cluster and written through
C33_Witness ==
    /\ last.op = "create"
    /\ last.err = ""
    /\ ~last.warn
    /\ HasUUID(recent, last.uuid)
    /\ \E i \in 1..Len(persisted) :
          persisted[i].uuid = last.uuid /\ persisted[i].tokenID = last.tok

\* C35 as stated: every token minted through the client and not deleted from
\* the registry is the tokenID of some cache record.
C35_EveryLiveTokenTracked ==
    \A m \in registry :
        \E i \in 1..Len(recent) :
            recent[i].uuid = m.cluster /\ recent[i].tokenID = m.id

C39_OnlyAddressedRecordChanges ==
    [][/\ last'.op = "add" =>
             \A i \in 1..Len(recent) :
                 recent[i].uuid # last'.uuid =>
                     \/ \E j \in 1..Len(recent') : recent'[j] = recent[i]
                     \/ /\ i = 1
                        /\ Len(recent) = maxRecent
                        /\ ~HasUUID(recent, last'.uuid)
       /\ (last'.op \in {"create", "remove", "revoke"} /\ last'.err # "crash") =>
             /\ Len(recent') = Len(recent)
             /\ \A i \in 1..Len(recent) :
                   /\ recent'[i].uuid = recent[i].uuid
                   /\ recent'[i].name = recent[i].name
                   /\ recent'[i].orgSlug = recent[i].orgSlug
                   /\ recent[i].uuid # last'.uuid => recent'[i] = recent[i]]_vars

\* a token was minted for one of several cached clusters
C39_Witness ==
    /\ last.op = "create"
    /\ last.err = ""
    /\ Len(recent) >= 2
    /\ HasUUID(recent, last.uuid)
    /\ RecordOf(recent, last.uuid).tokenID = last.tok
    /\ \E i \in 1..Len(recent) : recent[i].uuid # last.uuid /\ recent[i].tokenID = ""

\* ------------------------------------------------ create-flow claims

\* C40: the create flow upserts the selected cluster before it mints a token
\* for it, so when minting returns without error the in-memory record of the
\* selected cluster holds the id and the value of the minted token, also when
\* the save of the upsert had failed.
C40_MintedTokenIsCached ==
    (pc = "done" /\ last.op = "create" /\ last.err = "") =>
        /\ HasUUID(recent, last.uuid)
        /\ \E k \in DOMAIN TokenName :
              /\ last.tok = TokenName[k]
              /\ RecordOf(recent, last.uuid).tokenID = TokenName[k]
              /\ RecordOf(recent, last.uuid).tokenVal = SecretName[k]

\* the save of the upsert failed, the token was minted and is in the record
C40_Witness ==
    /\ pc = "done"
    /\ last.op = "create"
    /\ last.err = ""
    /\ ~last.warn
    /\ saveFails = 1
    /\ HasUUID(recent, last.uuid)
    /\ RecordOf(recent, last.uuid).tokenID = last.tok

\* ------------------------------------------- status claims, continued

\* C37 as stated: the summary of a status run reads "Connected" if and only
\* if the registry connectivity probe (ListClusters) succeeded.
C37_ConnectedIffProbeSucceeded ==
    report.summary # "none" =>
        (report.summary = "connected" <=> report.api = "connected")

\* --------------------------------------- delete-run claims, continued

\* the confirmation was accepted or skipped by force, and the run went past it
DestructionStarted ==
    /\ cmd.force \/ answer = "yes"
    /\ pc \notin {"idle", "start", "discover", "select", "connect", "plan", "confirm"}
    /\ result \in {"running", "ok", "error: prompt cancelled"}

\* C36 as stated: a run that has started its destructive actions never
\* returns, with or without error, before the token revocation was attempted
\* for every cluster selected for revocation.
C36_NoReturnBeforeRevocation ==
    (DestructionStarted /\ pc = "done") => AllRevocationsAttempted

\* C31 as stated: a run interrupted during termination polling has still
\* attempted the token revocation of every selected cluster, or has reported
\* the revocation as skipped.
C31_InterruptKeepsRevocation ==
    waitResult = "interrupted" =>
        \/ AllRevocationsAttempted
        \/ result = "revocation skipped"

\* C32: every delete run terminates. With every external call returning and
\* the ticker firing, a run reaches its end whatever state it is in, and a
\* timeout check made after the caller's timeout has elapsed leaves the wait
\* loop with the timeout warning, whether or not pods are still present.
C32_EveryRunTerminates ==
    /\ (pc # "done") ~> (pc = "done" /\ result # "running")
    /\ [][(pc = "poll" /\ elapsed > cmd.timeout) =>
             /\ pc' = "namespace"
             /\ waitResult' = "timeout"
             /\ pods' = pods]_vars

\* the wait timed out with a pod still present and the run went on to its end
C32_Witness ==
    /\ pc = "done"
    /\ result = "ok"
    /\ waitResult = "timeout"
    /\ elapsed > cmd.timeout
    /\ cmd.timeout > 0
    /\ \E pod \in pods : cmd.all \/ pod = cmd.name

\* ------------------------------------------- concurrent-invocation claims

\* C34: nothing serialises concurrent invocations. When two processes have
\* both saved, the document is the configuration of the one that saved last;
\* if that one had loaded before the other's save was written (and the
\* document it loaded had no record of the other's cluster), the other's
\* record is not in the document: the update is lost.
C34_LastSaverOverwrites ==
    \A p, q \in Savers :
        (/\ p # q
         /\ \A r \in Savers : procs[r].rank <= procs[p].rank
         /\ q \notin procs[p].saw
         /\ ~HasUUID(procs[p].loaded, SelectedCluster(q)))
        => /\ persisted = procs[p].config
           /\ ~HasUUID(persisted, SelectedCluster(q))

\* both processes loaded the empty document, both upserts were saved without
\* error, and the document holds one of the two records only
C34_Witness ==
    /\ Savers = Procs
    /\ \A p \in Procs : procs[p].loaded = <<>> /\ HasUUID(procs[p].config, SelectedCluster(p))
    /\ Len(persisted) = 1

====
